---- MODULE Spec2Model ----
(***************************************************************************)
(* hsync: one authoritative server and polling clients that reconcile a    *)
(* directory of small text documents through a three-way merge.            *)
(*                                                                         *)
(* Documents are texts: finite sequences of characters.  Directories and   *)
(* the client's base ledger are maps (functions whose DOMAIN is the set of *)
(* names present), so "the file does not exist" and "no base recorded"     *)
(* are "the name is not in the DOMAIN".                                    *)
(***************************************************************************)
EXTENDS Integers, Sequences, FiniteSets, TLC

\* ------------------------------------------------------------- bounds
\* Longest text an external editor types into a local file.
MaxLen == 1
\* Number of external edits of local files in one behaviour.
MaxEdits == 1
\* Number of requests issued by direct callers of the server (SpecApi).
MaxCalls == 1
\* Number of failures (of the transport, the decoder, the server's disk) in
\* one behaviour (SpecFault).
MaxFaults == 1
\* Number of restarts of client processes in one behaviour (SpecRestart).
MaxRestarts == 1

\* ---------------------------------------------------- program constants
\* diffmatchpatch.New(): PatchMargin and MatchMaxBits of the merge primitive.
PatchMargin == 4
MatchMaxBits == 32

Chars == {"a", "b"}
Clients == {"A", "B"}
\* A replica configured with a key that is not the server's.
Strangers == {"X"}
Replicas == Clients \cup Strangers
\* Server.Key (flag "key") and the Key of each replica's Config.
ServerKey == "default-secret"
ConfigKey(c) == IF c \in Strangers THEN "other-secret" ELSE ServerKey
Docs == {"note1.txt", "note2.txt"}
\* os.ReadDir returns the entries sorted by filename.
DocOrder == <<"note1.txt", "note2.txt">>

Texts(n) == UNION {[1..k -> Chars] : k \in 0..n}

Min(a, b) == IF a < b THEN a ELSE b
Max(a, b) == IF a > b THEN a ELSE b
SetMax(S) == CHOOSE x \in S : \A y \in S : y <= x
Abs(x) == IF x < 0 THEN -x ELSE x

\* text[lo:hi] of Go: 0-based, hi exclusive.
Slice(text, lo, hi) == SubSeq(text, lo + 1, hi)

\* ------------------------------------------------------------- maps
EmptyMap == [k \in {} |-> <<>>]
Put(m, k, v) == [x \in (DOMAIN m) \cup {k} |-> IF x = k THEN v ELSE m[x]]
Has(m, k) == k \in DOMAIN m
Holds(m, k, v) == IF Has(m, k) THEN m[k] = v ELSE FALSE
Remove(m, k) == [x \in (DOMAIN m) \ {k} |-> m[x]]
\* A map that counts: the count of k, and the map with one more k.
Count(m, k) == IF Has(m, k) THEN m[k] ELSE 0
Bump(m, k) == Put(m, k, Count(m, k) + 1)

\* ------------------------------------------------- the merge primitive
\* 0-based start positions at which pattern occurs in text.
Occurrences(text, pattern) ==
    {i \in 0..(Len(text) - Len(pattern)) :
        Slice(text, i, i + Len(pattern)) = pattern}

DiffCommonPrefix(text1, text2) ==
    SetMax({k \in 0..Min(Len(text1), Len(text2)) :
        Slice(text1, 0, k) = Slice(text2, 0, k)})

DiffCommonSuffix(text1, text2) ==
    SetMax({k \in 0..Min(Len(text1), Len(text2)) :
        Slice(text1, Len(text1) - k, Len(text1))
            = Slice(text2, Len(text2) - k, Len(text2))})

\* The edit script from text1 to text2: the common prefix is kept, the
\* middle of text1 is deleted, the middle of text2 inserted, and the common
\* suffix (of what follows the prefix) is kept.
DiffMain(text1, text2) ==
    LET p == DiffCommonPrefix(text1, text2)
        rest1 == Slice(text1, p, Len(text1))
        rest2 == Slice(text2, p, Len(text2))
        s == DiffCommonSuffix(rest1, rest2)
    IN  [start |-> p,
         del |-> Slice(rest1, 0, Len(rest1) - s),
         ins |-> Slice(rest2, 0, Len(rest2) - s)]

\* patchAddContext: the context grows by PatchMargin while the pattern is
\* not unique in the text, then by one more PatchMargin.
RECURSIVE PatchPadding(_, _, _, _)
PatchPadding(text, start, length1, padding) ==
    LET lo == Max(0, start - padding)
        hi == Min(Len(text), start + length1 + padding)
        pattern == Slice(text, lo, hi)
    IN  IF /\ Cardinality(Occurrences(text, pattern)) > 1
           /\ Len(pattern) < MatchMaxBits - 2 * PatchMargin
        THEN PatchPadding(text, start, length1, padding + PatchMargin)
        ELSE padding + PatchMargin

\* PatchMake(base, client): no patch when nothing changed, else one patch
\* carrying the change and its context in base.
PatchMake(text1, text2) ==
    IF text1 = text2 THEN <<>>
    ELSE LET d == DiffMain(text1, text2)
             padding == PatchPadding(text1, d.start, Len(d.del), 0)
             lo == Max(0, d.start - padding)
             hi == Min(Len(text1), d.start + Len(d.del) + padding)
         IN  << [start |-> lo,
                 prefix |-> Slice(text1, lo, d.start),
                 del |-> d.del,
                 ins |-> d.ins,
                 suffix |-> Slice(text1, d.start + Len(d.del), hi)] >>

\* MatchMain: the occurrence of pattern in text nearest to loc, or -1.
\* Only exact occurrences of the context are matched.
MatchMain(text, pattern, loc) ==
    LET occ == Occurrences(text, pattern)
        near == Max(0, Min(loc, Len(text)))
    IN  IF occ = {} THEN -1
        ELSE CHOOSE i \in occ :
                \A j \in occ : \/ Abs(i - near) < Abs(j - near)
                               \/ (Abs(i - near) = Abs(j - near) /\ i <= j)

\* PatchApply: each patch is applied where its context is found; a patch
\* whose context is not found is dropped and the text returned as it is.
RECURSIVE PatchApply(_, _)
PatchApply(patches, text) ==
    IF patches = <<>> THEN text
    ELSE LET patch == Head(patches)
             text1 == patch.prefix \o patch.del \o patch.suffix
             text2 == patch.prefix \o patch.ins \o patch.suffix
             loc == MatchMain(text, text1, patch.start)
             applied ==
                IF loc = -1 THEN text
                ELSE Slice(text, 0, loc) \o text2
                        \o Slice(text, loc + Len(text1), Len(text))
         IN  PatchApply(Tail(patches), applied)

\* Mutant: the patches are computed and never applied.
ThreeWayMerge_KeepServer(base, client, server) ==
    server

\* Mutant: the patches are applied to the base, not to the server's content.
ThreeWayMerge_OntoBase(base, client, server) ==
    PatchApply(PatchMake(base, client), base)

\* merger.ThreeWayMerge(base, client, server)
ThreeWayMerge(base, client, server) ==
    PatchApply(PatchMake(base, client), server)

\* utils.CalculateHash: a stable digest of the content; distinct texts of
\* the model have distinct digests.
CharCode(ch) == IF ch = "a" THEN 1 ELSE 2
RECURSIVE CalculateHash(_)
CalculateHash(content) ==
    IF content = <<>> THEN 0
    ELSE 3 * CalculateHash(SubSeq(content, 1, Len(content) - 1))
            + CharCode(content[Len(content)])

\* ------------------------------------------------------------- state
VARIABLES
    serverDir,         \* server: the data directory, name -> content
    mu,                \* server: holder of Server.mu, or "free"
    hpc,               \* server: position of the handler serving each client's request
    req,               \* the request each client has in flight
    serverContent,     \* handler local: the content read for a reconcile
    resp,              \* the response written for each client
    baseContents,      \* client: the base ledger, name -> content
    localDir,          \* client: the local directory, name -> content
    pc,                \* client: position in Run
    call,              \* client: "initial" (line 129) or "tick" (lines 136-138)
    serverFiles,       \* client local: the decoded listing, name -> hash
    pending,           \* client local: names the running loop has not visited yet
    filename,          \* client local: the name the loop body is working on
    localBaseContent,  \* client local of syncWithServer
    exists,            \* client local of syncWithServer
    content,           \* client local: the downloaded content
    currentBytes,      \* client local: what os.ReadFile returned
    notExist,          \* client local: os.IsNotExist(err) of that read
    edits,             \* events from outside so far: edits, direct calls, failures
    obs                \* history of each client's running round: the ledger and
                       \* directory it started from, what the server served it
                       \* and what the server merged for it; and, kept
                       \* across rounds, the answer to each push that
                       \* failed and was not yet repeated with success,
                       \* and each reconcile the server applied whose
                       \* response was lost (fresh: in the running tick),
                       \* until a later tick with a complete pull ends;
                       \* and how many times the round has sent each call

vars == <<serverDir, mu, hpc, req, serverContent, resp, baseContents, localDir,
          pc, call, serverFiles, pending, filename, localBaseContent, exists,
          content, currentBytes, notExist, edits, obs>>

serverVars == <<serverDir, mu, hpc, req, serverContent, resp>>
ledgerVars == <<baseContents, localDir>>
loopVars == <<serverFiles, pending, filename, localBaseContent, exists,
              content, currentBytes, notExist>>

\* A request: the X-Sync-Key header, the method and query, the JSON body of
\* a POST, whether that body has reached the server (sent) and whether
\* the server's JSON decoder accepts it (decodes).
NoReq == [method |-> "NONE", filename |-> "", base |-> <<>>, latest |-> <<>>,
          key |-> "", sent |-> TRUE, decodes |-> TRUE]
\* A response as the caller sees it: err is the error of client.Do or of the
\* decoder ("none" when there is none), then the status and the payload.
NoResp == [status |-> 0, list |-> EmptyMap, body |-> <<>>, err |-> "none"]
NoObs == [base0 |-> EmptyMap, local0 |-> EmptyMap, served |-> EmptyMap,
          pushed |-> EmptyMap, failed |-> EmptyMap, lost |-> EmptyMap,
          listed |-> FALSE, calls |-> EmptyMap]

StatusOK == 200
StatusBadRequest == 400
StatusNotFound == 404
StatusUnauthorized == 401
StatusInternalServerError == 500

\* The caller got a response it can use: no error, status 200, decodable.
Succeeded(r) == r.err = "none" /\ r.status = StatusOK

\* The contents the server's data directory starts with.
InitServerDirs ==
    {[f \in {"note1.txt"} |-> <<"a">>]}

\* The local directory a client starts with: empty, or holding a note
\* written before the client was first run.
InitLocalDirs ==
    {EmptyMap, [f \in {"note1.txt"} |-> <<"b">>]}

Init ==
    /\ serverDir \in InitServerDirs
    /\ mu = "free"
    /\ hpc = [c \in Replicas |-> "none"]
    /\ req = [c \in Replicas |-> NoReq]
    /\ serverContent = [c \in Replicas |-> <<>>]
    /\ resp = [c \in Replicas |-> NoResp]
    /\ baseContents = [c \in Replicas |-> EmptyMap]
    /\ localDir \in {l \in [Replicas -> InitLocalDirs] :
                        \A c \in Strangers : l[c] = EmptyMap}
    /\ pc = [c \in Replicas |-> "start"]
    /\ call = [c \in Replicas |-> "initial"]
    /\ serverFiles = [c \in Replicas |-> EmptyMap]
    /\ pending = [c \in Replicas |-> {}]
    /\ filename = [c \in Replicas |-> ""]
    /\ localBaseContent = [c \in Replicas |-> <<>>]
    /\ exists = [c \in Replicas |-> FALSE]
    /\ content = [c \in Replicas |-> <<>>]
    /\ currentBytes = [c \in Replicas |-> <<>>]
    /\ notExist = [c \in Replicas |-> FALSE]
    /\ edits = 0
    /\ obs = [c \in Replicas |-> NoObs]

\* --------------------------------------------------------- file names
\* The names a request may carry, and how each is spelled.
PathNames ==
    Docs \cup {"", ".", "/", "sub", "sub/", "note1.md", "sub/note1.txt"}
Spell(n) ==
    CASE n = "" -> <<>>
      [] n = "." -> <<".">>
      [] n = "/" -> <<"/">>
      [] n = "sub" -> <<"s", "u", "b">>
      [] n = "sub/" -> <<"s", "u", "b", "/">>
      [] n = "note1.md" -> <<"n", "o", "t", "e", "1", ".", "m", "d">>
      [] n = "note1.txt" -> <<"n", "o", "t", "e", "1", ".", "t", "x", "t">>
      [] n = "note2.txt" -> <<"n", "o", "t", "e", "2", ".", "t", "x", "t">>
      [] n = "sub/note1.txt" ->
            <<"s", "u", "b", "/", "n", "o", "t", "e", "1", ".", "t", "x", "t">>

\* filepath.Base: the last element of the path.  Trailing slashes are
\* removed first; the empty path gives ".", a path of slashes gives "/".
Base(path) ==
    LET p == Spell(path)
        end == SetMax({0} \cup {i \in 1..Len(p) : p[i] # "/"})
        stripped == SubSeq(p, 1, end)
        slash == SetMax({0} \cup {i \in 1..end : stripped[i] = "/"})
        last == SubSeq(stripped, slash + 1, end)
        out == IF p = <<>> THEN <<".">>
               ELSE IF last = <<>> THEN <<"/">> ELSE last
    IN  CHOOSE n \in PathNames : Spell(n) = out

\* strings.HasSuffix
HasSuffix(n, suffix) ==
    LET s == Spell(n) IN
        /\ Len(s) >= Len(suffix)
        /\ SubSeq(s, Len(s) - Len(suffix) + 1, Len(s)) = suffix

\* handleSync, "Security check": the name under which the request is
\* served, and the test it has to pass.
cleanName(c) == Base(req[c].filename)
ValidName(n) ==
    /\ n # "."
    /\ n # "/"
    /\ HasSuffix(n, <<".", "t", "x", "t">>)

\* ------------------------------------------------------------ server
\* client.Do(req): the request reaches the server and the caller blocks.
Send(c, r) ==
    /\ hpc[c] = "none"
    /\ req' = [req EXCEPT ![c] = [r EXCEPT !.key = ConfigKey(c)]]
    /\ hpc' = [hpc EXCEPT ![c] = "arrived"]
    /\ resp' = [resp EXCEPT ![c] = NoResp]

\* The caller takes the response; the exchange is over.
Receive(c) ==
    /\ hpc[c] = "done"
    /\ hpc' = [hpc EXCEPT ![c] = "none"]
    /\ req' = [req EXCEPT ![c] = NoReq]
    /\ resp' = [resp EXCEPT ![c] = NoResp]
    /\ serverContent' = [serverContent EXCEPT ![c] = <<>>]

\* Mutant: the handler does not wait for the lock.
handleSyncLock_NoWait(c) ==
    /\ hpc[c] = "arrived"
    /\ req[c].key = ServerKey
    /\ mu' = c
    /\ hpc' = [hpc EXCEPT ![c] = "locked"]
    /\ UNCHANGED <<serverDir, req, serverContent, resp, ledgerVars, pc, call,
                   loopVars, edits, obs>>

\* handleSync, "Apply Auth": a request whose key is not the server's is
\* answered Unauthorized and the handler returns.
handleSyncUnauthorized(c) ==
    /\ hpc[c] = "arrived"
    /\ req[c].key # ServerKey
    /\ resp' = [resp EXCEPT ![c] =
            [status |-> StatusUnauthorized, list |-> EmptyMap, body |-> <<>>,
             err |-> "none"]]
    /\ hpc' = [hpc EXCEPT ![c] = "done"]
    /\ UNCHANGED <<serverDir, mu, req, serverContent, ledgerVars, pc, call,
                   loopVars, edits, obs>>

\* Mutant: the lock is taken without the key having been checked.
handleSyncLock_NoAuth(c) ==
    /\ hpc[c] = "arrived"
    /\ mu = "free"
    /\ mu' = c
    /\ hpc' = [hpc EXCEPT ![c] = "locked"]
    /\ UNCHANGED <<serverDir, req, serverContent, resp, ledgerVars, pc, call,
                   loopVars, edits, obs>>

\* client.Do writes the body of a POST after its headers; the handler is
\* already running and may hold the lock.
DoSendBody(c) ==
    /\ hpc[c] \in {"arrived", "locked"}
    /\ ~req[c].sent
    /\ req' = [req EXCEPT ![c].sent = TRUE]
    /\ UNCHANGED <<serverDir, mu, hpc, serverContent, resp, ledgerVars, pc,
                   call, loopVars, edits, obs>>

\* The key matches: s.mu.Lock()
handleSyncLock(c) ==
    /\ hpc[c] = "arrived"
    /\ req[c].key = ServerKey
    /\ mu = "free"
    /\ mu' = c
    /\ hpc' = [hpc EXCEPT ![c] = "locked"]
    /\ UNCHANGED <<serverDir, req, serverContent, resp, ledgerVars, pc, call,
                   loopVars, edits, obs>>

\* GET /sync: the listing of names and hashes; the deferred Unlock runs.
handleSyncList(c) ==
    /\ hpc[c] = "locked"
    /\ req[c].method = "LIST"
    /\ resp' = [resp EXCEPT ![c] =
            [status |-> StatusOK,
             list |-> [f \in DOMAIN serverDir |-> CalculateHash(serverDir[f])],
             body |-> <<>>, err |-> "none"]]
    /\ mu' = "free"
    /\ hpc' = [hpc EXCEPT ![c] = "done"]
    /\ UNCHANGED <<serverDir, req, serverContent, ledgerVars, pc, call,
                   loopVars, edits, obs>>

\* Mutant: a fetch of a name the server does not hold creates the document
\* and answers with its empty content.
handleSyncGet_Create(c) ==
    /\ hpc[c] = "locked"
    /\ req[c].method = "GET"
    /\ ValidName(cleanName(c))
    /\ LET f == cleanName(c)
           got == IF Has(serverDir, f) THEN serverDir[f] ELSE <<>>
       IN  /\ serverDir' = Put(serverDir, f, got)
           /\ resp' = [resp EXCEPT ![c] =
                    [status |-> StatusOK, list |-> EmptyMap, body |-> got,
                     err |-> "none"]]
           /\ obs' = [obs EXCEPT ![c].served = Put(@, f, got)]
    /\ mu' = "free"
    /\ hpc' = [hpc EXCEPT ![c] = "done"]
    /\ UNCHANGED <<req, serverContent, ledgerVars, pc, call, loopVars, edits>>

\* GET /sync?filename=f: the content of one document, or Not Found.
handleSyncGet(c) ==
    /\ hpc[c] = "locked"
    /\ req[c].method = "GET"
    /\ ValidName(cleanName(c))
    /\ LET f == cleanName(c) IN
        IF Has(serverDir, f)
        THEN /\ resp' = [resp EXCEPT ![c] =
                    [status |-> StatusOK, list |-> EmptyMap, body |-> serverDir[f],
                     err |-> "none"]]
             /\ obs' = [obs EXCEPT ![c].served = Put(@, f, serverDir[f])]
        ELSE /\ resp' = [resp EXCEPT ![c] =
                    [status |-> StatusNotFound, list |-> EmptyMap, body |-> <<>>,
                     err |-> "none"]]
             /\ obs' = obs
    /\ mu' = "free"
    /\ hpc' = [hpc EXCEPT ![c] = "done"]
    /\ UNCHANGED <<serverDir, req, serverContent, ledgerVars, pc, call,
                   loopVars, edits>>

\* GET /sync?filename=f, os.ReadFile fails on a file that exists:
\* "Internal Server Error" is answered and the deferred Unlock runs.
handleSyncGetError(c) ==
    /\ hpc[c] = "locked"
    /\ req[c].method = "GET"
    /\ ValidName(cleanName(c))
    /\ Has(serverDir, cleanName(c))
    /\ edits < MaxEdits + MaxFaults
    /\ edits' = edits + 1
    /\ resp' = [resp EXCEPT ![c] =
            [status |-> StatusInternalServerError, list |-> EmptyMap,
             body |-> <<>>, err |-> "none"]]
    /\ mu' = "free"
    /\ hpc' = [hpc EXCEPT ![c] = "done"]
    /\ UNCHANGED <<serverDir, req, serverContent, ledgerVars, pc, call,
                   loopVars, obs>>

\* GET /sync?filename=f, "Security check": "Invalid Filename" is answered
\* and the deferred Unlock runs.
handleSyncGetInvalid(c) ==
    /\ hpc[c] = "locked"
    /\ req[c].method = "GET"
    /\ ~ValidName(cleanName(c))
    /\ resp' = [resp EXCEPT ![c] =
            [status |-> StatusBadRequest, list |-> EmptyMap, body |-> <<>>,
             err |-> "none"]]
    /\ mu' = "free"
    /\ hpc' = [hpc EXCEPT ![c] = "done"]
    /\ UNCHANGED <<serverDir, req, serverContent, ledgerVars, pc, call,
                   loopVars, edits, obs>>

\* Mutant: the body is not checked; what does not decode leaves the fields
\* of the request empty, and the name is used as it is.
handleSyncRead_Unchecked(c) ==
    /\ hpc[c] = "locked"
    /\ req[c].method = "POST"
    /\ req[c].sent
    /\ serverContent' = [serverContent EXCEPT ![c] =
            IF Has(serverDir, cleanName(c))
            THEN serverDir[cleanName(c)] ELSE <<>>]
    /\ hpc' = [hpc EXCEPT ![c] = "read"]
    /\ UNCHANGED <<serverDir, mu, req, resp, ledgerVars, pc, call, loopVars,
                   edits, obs>>

\* POST /sync: the body does not decode ("Bad Request"), or the name does
\* not pass the security check ("Invalid Filename", "Only .txt files
\* allowed"); the handler returns and the deferred Unlock runs.
handleSyncBadRequest(c) ==
    /\ hpc[c] = "locked"
    /\ req[c].method = "POST"
    /\ req[c].sent
    /\ ~req[c].decodes \/ ~ValidName(cleanName(c))
    /\ resp' = [resp EXCEPT ![c] =
            [status |-> StatusBadRequest, list |-> EmptyMap, body |-> <<>>,
             err |-> "none"]]
    /\ mu' = "free"
    /\ hpc' = [hpc EXCEPT ![c] = "done"]
    /\ UNCHANGED <<serverDir, req, serverContent, ledgerVars, pc, call,
                   loopVars, edits, obs>>

\* Mutant: the lock is released once the content has been read.
handleSyncRead_Unlock(c) ==
    /\ hpc[c] = "locked"
    /\ req[c].method = "POST"
    /\ req[c].sent
    /\ req[c].decodes
    /\ ValidName(cleanName(c))
    /\ serverContent' = [serverContent EXCEPT ![c] =
            IF Has(serverDir, cleanName(c))
            THEN serverDir[cleanName(c)] ELSE <<>>]
    /\ mu' = "free"
    /\ hpc' = [hpc EXCEPT ![c] = "read"]
    /\ UNCHANGED <<serverDir, req, resp, ledgerVars, pc, call, loopVars,
                   edits, obs>>

\* POST /sync: the decoder has read the whole body, then
\* os.ReadFile(serverPath): absent content is the empty text.
handleSyncRead(c) ==
    /\ hpc[c] = "locked"
    /\ req[c].method = "POST"
    /\ req[c].sent
    /\ req[c].decodes
    /\ ValidName(cleanName(c))
    /\ serverContent' = [serverContent EXCEPT ![c] =
            IF Has(serverDir, cleanName(c))
            THEN serverDir[cleanName(c)] ELSE <<>>]
    /\ hpc' = [hpc EXCEPT ![c] = "read"]
    /\ UNCHANGED <<serverDir, mu, req, resp, ledgerVars, pc, call, loopVars,
                   edits, obs>>

\* Mutant: the incoming text is stored instead of the merged one.
handleSyncWrite_StoreLatest(c) ==
    /\ hpc[c] = "read"
    /\ LET merged == ThreeWayMerge(req[c].base, req[c].latest, serverContent[c])
       IN  /\ serverDir' = Put(serverDir, cleanName(c), req[c].latest)
           /\ resp' = [resp EXCEPT ![c] =
                    [status |-> StatusOK, list |-> EmptyMap, body |-> merged,
                     err |-> "none"]]
           /\ obs' = [obs EXCEPT ![c].pushed = Put(@, cleanName(c),
                    [base |-> req[c].base, latest |-> req[c].latest,
                     current |-> serverContent[c], merged |-> merged])]
    /\ hpc' = [hpc EXCEPT ![c] = "written"]
    /\ UNCHANGED <<mu, req, serverContent, ledgerVars, pc, call, loopVars,
                   edits>>

\* POST /sync, ThreeWayMerge and os.WriteFile(serverPath, merged).
handleSyncWrite(c) ==
    /\ hpc[c] = "read"
    /\ LET merged == ThreeWayMerge(req[c].base, req[c].latest, serverContent[c])
       IN  /\ serverDir' = Put(serverDir, cleanName(c), merged)
           /\ resp' = [resp EXCEPT ![c] =
                    [status |-> StatusOK, list |-> EmptyMap, body |-> merged,
                     err |-> "none"]]
           /\ obs' = [obs EXCEPT ![c].pushed = Put(@, cleanName(c),
                    [base |-> req[c].base, latest |-> req[c].latest,
                     current |-> serverContent[c], merged |-> merged])]
    /\ hpc' = [hpc EXCEPT ![c] = "written"]
    /\ UNCHANGED <<mu, req, serverContent, ledgerVars, pc, call, loopVars,
                   edits>>

\* POST /sync, os.WriteFile fails: "Write Error" is answered.  The file is
\* as it was (it could not be opened) or truncated (the write failed after
\* the file was opened with O_TRUNC).
handleSyncWriteError(c) ==
    /\ hpc[c] = "read"
    /\ edits < MaxEdits + MaxFaults
    /\ edits' = edits + 1
    /\ \/ serverDir' = serverDir
       \/ /\ Has(serverDir, cleanName(c))
          /\ serverDir[cleanName(c)] # <<>>
          /\ serverDir' = Put(serverDir, cleanName(c), <<>>)
    /\ resp' = [resp EXCEPT ![c] =
            [status |-> StatusInternalServerError, list |-> EmptyMap,
             body |-> <<>>, err |-> "none"]]
    /\ hpc' = [hpc EXCEPT ![c] = "failed"]
    /\ UNCHANGED <<mu, req, serverContent, ledgerVars, pc, call, loopVars, obs>>

\* POST /sync: the handler returns and the deferred Unlock runs.
handleSyncRespond(c) ==
    /\ hpc[c] \in {"written", "failed"}
    /\ mu' = "free"
    /\ hpc' = [hpc EXCEPT ![c] = "done"]
    /\ UNCHANGED <<serverDir, req, serverContent, resp, ledgerVars, pc, call,
                   loopVars, edits, obs>>

\* ------------------------------------------------------------ client
ListRequest ==
    [method |-> "LIST", filename |-> "", base |-> <<>>, latest |-> <<>>,
     key |-> "", sent |-> TRUE, decodes |-> TRUE]
GetRequest(f) ==
    [method |-> "GET", filename |-> f, base |-> <<>>, latest |-> <<>>,
     key |-> "", sent |-> TRUE, decodes |-> TRUE]
\* The body of a POST follows its headers.
SyncRequest(f, base, latest) ==
    [method |-> "POST", filename |-> f, base |-> base, latest |-> latest,
     key |-> "", sent |-> FALSE, decodes |-> TRUE]

\* The round starts: syncWithServer sends the listing request.
StartRound(c, kind) ==
    /\ Send(c, ListRequest)
    /\ call' = [call EXCEPT ![c] = kind]
    /\ pc' = [pc EXCEPT ![c] = "list"]
    /\ obs' = [obs EXCEPT ![c] =
            [base0 |-> baseContents[c], local0 |-> localDir[c],
             served |-> EmptyMap, pushed |-> EmptyMap,
             failed |-> obs[c].failed,
             lost |-> [f \in DOMAIN obs[c].lost |->
                        [obs[c].lost[f] EXCEPT !.fresh = FALSE]],
             listed |-> FALSE,
             calls |-> Bump(EmptyMap, <<"LIST", "">>)]]
    /\ UNCHANGED <<serverDir, mu, serverContent, ledgerVars, loopVars, edits>>

\* Mutant: Run starts with a whole tick, syncWithServer and checkAndUpload.
RunInitialSync_AsTick(c) ==
    /\ pc[c] = "start"
    /\ StartRound(c, "tick")

\* Run, "3-1. Initial Sync": syncWithServer alone.
RunInitialSync(c) ==
    /\ pc[c] = "start"
    /\ StartRound(c, "initial")

\* Run, one tick of the ticker: syncWithServer, then checkAndUpload.
RunTick(c) ==
    /\ pc[c] = "ticker"
    /\ StartRound(c, "tick")

\* syncWithServer: the listing is decoded into serverFiles.
syncWithServerList(c) ==
    /\ pc[c] = "list"
    /\ Receive(c)
    /\ IF Succeeded(resp[c])
       THEN /\ serverFiles' = [serverFiles EXCEPT ![c] = resp[c].list]
            /\ pending' = [pending EXCEPT ![c] = DOMAIN resp[c].list]
       ELSE /\ serverFiles' = [serverFiles EXCEPT ![c] = EmptyMap]
            /\ pending' = [pending EXCEPT ![c] = {}]
    /\ obs' = [obs EXCEPT ![c].listed = Succeeded(resp[c])]
    /\ pc' = [pc EXCEPT ![c] = "pull"]
    /\ UNCHANGED <<serverDir, mu, ledgerVars, call, filename, localBaseContent,
                   exists, content, currentBytes, notExist, edits>>

\* Mutant: every listed document is downloaded, whatever its base.
syncWithServerNext_Always(c) ==
    /\ pc[c] = "pull"
    /\ \E f \in pending[c] :
        LET had == Has(baseContents[c], f)
            old == IF had THEN baseContents[c][f] ELSE <<>>
        IN  /\ pending' = [pending EXCEPT ![c] = @ \ {f}]
            /\ Send(c, GetRequest(f))
            /\ filename' = [filename EXCEPT ![c] = f]
            /\ localBaseContent' = [localBaseContent EXCEPT ![c] = old]
            /\ exists' = [exists EXCEPT ![c] = had]
            /\ pc' = [pc EXCEPT ![c] = "download"]
            /\ obs' = [obs EXCEPT ![c].calls = Bump(@, <<"GET", f>>)]
    /\ UNCHANGED <<serverDir, mu, serverContent, ledgerVars, call, serverFiles,
                   content, currentBytes, notExist, edits>>

\* syncWithServer, the loop head: the base is looked up and its hash
\* compared with the listed one; downloadFile is called when they differ.
syncWithServerNext(c) ==
    /\ pc[c] = "pull"
    /\ \E f \in pending[c] :
        LET had == Has(baseContents[c], f)
            old == IF had THEN baseContents[c][f] ELSE <<>>
        IN  /\ pending' = [pending EXCEPT ![c] = @ \ {f}]
            /\ IF ~had \/ CalculateHash(old) # serverFiles[c][f]
               THEN /\ Send(c, GetRequest(f))
                    /\ filename' = [filename EXCEPT ![c] = f]
                    /\ localBaseContent' = [localBaseContent EXCEPT ![c] = old]
                    /\ exists' = [exists EXCEPT ![c] = had]
                    /\ pc' = [pc EXCEPT ![c] = "download"]
                    /\ obs' = [obs EXCEPT ![c].calls = Bump(@, <<"GET", f>>)]
               ELSE UNCHANGED <<hpc, req, resp, filename, localBaseContent,
                                exists, pc, obs>>
    /\ UNCHANGED <<serverDir, mu, serverContent, ledgerVars, call, serverFiles,
                   content, currentBytes, notExist, edits>>

\* Mutant: the downloaded content is not recorded as the base.
syncWithServerDownloaded_NoBase(c) ==
    /\ pc[c] = "download"
    /\ Receive(c)
    /\ LET f == filename[c] IN
        IF Succeeded(resp[c])
        THEN /\ content' = [content EXCEPT ![c] = resp[c].body]
             /\ notExist' = [notExist EXCEPT ![c] = ~Has(localDir[c], f)]
             /\ currentBytes' = [currentBytes EXCEPT ![c] =
                    IF Has(localDir[c], f) THEN localDir[c][f] ELSE <<>>]
             /\ pc' = [pc EXCEPT ![c] = "pullwrite"]
             /\ UNCHANGED <<filename, localBaseContent, exists>>
        ELSE /\ pc' = [pc EXCEPT ![c] = "pull"]
             /\ filename' = [filename EXCEPT ![c] = ""]
             /\ localBaseContent' = [localBaseContent EXCEPT ![c] = <<>>]
             /\ exists' = [exists EXCEPT ![c] = FALSE]
             /\ UNCHANGED <<content, notExist, currentBytes>>
    /\ UNCHANGED <<serverDir, mu, baseContents, localDir, call, serverFiles,
                   pending, edits, obs>>

\* Mutant: the error of downloadFile is not looked at; the content it
\* returned with the error is the empty text.
syncWithServerDownloaded_NoContinue(c) ==
    /\ pc[c] = "download"
    /\ Receive(c)
    /\ LET f == filename[c]
           got == IF Succeeded(resp[c]) THEN resp[c].body ELSE <<>>
       IN  /\ baseContents' = [baseContents EXCEPT ![c] = Put(@, f, got)]
           /\ content' = [content EXCEPT ![c] = got]
           /\ notExist' = [notExist EXCEPT ![c] = ~Has(localDir[c], f)]
           /\ currentBytes' = [currentBytes EXCEPT ![c] =
                    IF Has(localDir[c], f) THEN localDir[c][f] ELSE <<>>]
           /\ pc' = [pc EXCEPT ![c] = "pullwrite"]
           /\ UNCHANGED <<filename, localBaseContent, exists>>
    /\ UNCHANGED <<serverDir, mu, localDir, call, serverFiles, pending, edits, obs>>

\* Mutant: a download that failed is tried again in the same pull.
syncWithServerDownloaded_Retry(c) ==
    /\ pc[c] = "download"
    /\ Receive(c)
    /\ LET f == filename[c] IN
        IF Succeeded(resp[c])
        THEN /\ baseContents' = [baseContents EXCEPT ![c] = Put(@, f, resp[c].body)]
             /\ content' = [content EXCEPT ![c] = resp[c].body]
             /\ notExist' = [notExist EXCEPT ![c] = ~Has(localDir[c], f)]
             /\ currentBytes' = [currentBytes EXCEPT ![c] =
                    IF Has(localDir[c], f) THEN localDir[c][f] ELSE <<>>]
             /\ pc' = [pc EXCEPT ![c] = "pullwrite"]
             /\ UNCHANGED <<filename, localBaseContent, exists, pending>>
        ELSE /\ pc' = [pc EXCEPT ![c] = "pull"]
             /\ pending' = [pending EXCEPT ![c] = @ \cup {f}]
             /\ filename' = [filename EXCEPT ![c] = ""]
             /\ localBaseContent' = [localBaseContent EXCEPT ![c] = <<>>]
             /\ exists' = [exists EXCEPT ![c] = FALSE]
             /\ UNCHANGED <<baseContents, content, notExist, currentBytes>>
    /\ UNCHANGED <<serverDir, mu, localDir, call, serverFiles, edits, obs>>

\* syncWithServer after downloadFile returned: the base is updated and the
\* local file read.
syncWithServerDownloaded(c) ==
    /\ pc[c] = "download"
    /\ Receive(c)
    /\ LET f == filename[c] IN
        IF Succeeded(resp[c])
        THEN /\ baseContents' = [baseContents EXCEPT ![c] = Put(@, f, resp[c].body)]
             /\ content' = [content EXCEPT ![c] = resp[c].body]
             /\ notExist' = [notExist EXCEPT ![c] = ~Has(localDir[c], f)]
             /\ currentBytes' = [currentBytes EXCEPT ![c] =
                    IF Has(localDir[c], f) THEN localDir[c][f] ELSE <<>>]
             /\ pc' = [pc EXCEPT ![c] = "pullwrite"]
             /\ UNCHANGED <<filename, localBaseContent, exists>>
        ELSE /\ pc' = [pc EXCEPT ![c] = "pull"]
             /\ filename' = [filename EXCEPT ![c] = ""]
             /\ localBaseContent' = [localBaseContent EXCEPT ![c] = <<>>]
             /\ exists' = [exists EXCEPT ![c] = FALSE]
             /\ UNCHANGED <<baseContents, content, notExist, currentBytes>>
    /\ UNCHANGED <<serverDir, mu, localDir, call, serverFiles, pending, edits, obs>>

\* Mutant: a local file with a recorded base is overwritten whether or not
\* it equals that base.
syncWithServerWrite_Overwrite(c) ==
    /\ pc[c] = "pullwrite"
    /\ LET f == filename[c] IN
        IF notExist[c] \/ exists[c]
        THEN localDir' = [localDir EXCEPT ![c] = Put(@, f, content[c])]
        ELSE localDir' = localDir
    /\ pc' = [pc EXCEPT ![c] = "pull"]
    /\ filename' = [filename EXCEPT ![c] = ""]
    /\ localBaseContent' = [localBaseContent EXCEPT ![c] = <<>>]
    /\ exists' = [exists EXCEPT ![c] = FALSE]
    /\ content' = [content EXCEPT ![c] = <<>>]
    /\ currentBytes' = [currentBytes EXCEPT ![c] = <<>>]
    /\ notExist' = [notExist EXCEPT ![c] = FALSE]
    /\ UNCHANGED <<serverVars, baseContents, call, serverFiles, pending, edits, obs>>

\* Mutant: an existing local file is never fast-forwarded.
syncWithServerWrite_NewOnly(c) ==
    /\ pc[c] = "pullwrite"
    /\ LET f == filename[c] IN
        IF notExist[c]
        THEN localDir' = [localDir EXCEPT ![c] = Put(@, f, content[c])]
        ELSE localDir' = localDir
    /\ pc' = [pc EXCEPT ![c] = "pull"]
    /\ filename' = [filename EXCEPT ![c] = ""]
    /\ localBaseContent' = [localBaseContent EXCEPT ![c] = <<>>]
    /\ exists' = [exists EXCEPT ![c] = FALSE]
    /\ content' = [content EXCEPT ![c] = <<>>]
    /\ currentBytes' = [currentBytes EXCEPT ![c] = <<>>]
    /\ notExist' = [notExist EXCEPT ![c] = FALSE]
    /\ UNCHANGED <<serverVars, baseContents, call, serverFiles, pending, edits, obs>>

\* Mutant: the fetched content is written whatever the local file holds.
syncWithServerWrite_Always(c) ==
    /\ pc[c] = "pullwrite"
    /\ localDir' = [localDir EXCEPT ![c] = Put(@, filename[c], content[c])]
    /\ pc' = [pc EXCEPT ![c] = "pull"]
    /\ filename' = [filename EXCEPT ![c] = ""]
    /\ localBaseContent' = [localBaseContent EXCEPT ![c] = <<>>]
    /\ exists' = [exists EXCEPT ![c] = FALSE]
    /\ content' = [content EXCEPT ![c] = <<>>]
    /\ currentBytes' = [currentBytes EXCEPT ![c] = <<>>]
    /\ notExist' = [notExist EXCEPT ![c] = FALSE]
    /\ UNCHANGED <<serverVars, baseContents, call, serverFiles, pending, edits, obs>>

\* syncWithServer: the local file is written when it did not exist or was
\* clean (equal to the old base), and left alone otherwise.
syncWithServerWrite(c) ==
    /\ pc[c] = "pullwrite"
    /\ LET f == filename[c] IN
        IF notExist[c] \/ (exists[c] /\ currentBytes[c] = localBaseContent[c])
        THEN localDir' = [localDir EXCEPT ![c] = Put(@, f, content[c])]
        ELSE localDir' = localDir
    /\ pc' = [pc EXCEPT ![c] = "pull"]
    /\ filename' = [filename EXCEPT ![c] = ""]
    /\ localBaseContent' = [localBaseContent EXCEPT ![c] = <<>>]
    /\ exists' = [exists EXCEPT ![c] = FALSE]
    /\ content' = [content EXCEPT ![c] = <<>>]
    /\ currentBytes' = [currentBytes EXCEPT ![c] = <<>>]
    /\ notExist' = [notExist EXCEPT ![c] = FALSE]
    /\ UNCHANGED <<serverVars, baseContents, call, serverFiles, pending, edits, obs>>

\* Mutant: checkAndUpload starts while syncWithServer is still in its loop.
syncWithServerReturn_Early(c) ==
    /\ pc[c] = "pull"
    /\ serverFiles' = [serverFiles EXCEPT ![c] = EmptyMap]
    /\ IF call[c] = "initial"
       THEN /\ pc' = [pc EXCEPT ![c] = "ticker"]
            /\ obs' = [obs EXCEPT ![c] = [NoObs EXCEPT !.failed = obs[c].failed,
                                                       !.lost = obs[c].lost]]
            /\ pending' = [pending EXCEPT ![c] = {}]
       ELSE /\ pc' = [pc EXCEPT ![c] = "push"]
            /\ obs' = obs
            /\ pending' = [pending EXCEPT ![c] = DOMAIN localDir[c]]
    /\ UNCHANGED <<serverVars, ledgerVars, call, filename, localBaseContent,
                   exists, content, currentBytes, notExist, edits>>

\* syncWithServer returns.  After the initial sync Run waits for the ticker;
\* in a tick checkAndUpload follows and reads the directory.
syncWithServerReturn(c) ==
    /\ pc[c] = "pull"
    /\ pending[c] = {}
    /\ serverFiles' = [serverFiles EXCEPT ![c] = EmptyMap]
    /\ IF call[c] = "initial"
       THEN /\ pc' = [pc EXCEPT ![c] = "ticker"]
            /\ obs' = [obs EXCEPT ![c] = [NoObs EXCEPT !.failed = obs[c].failed,
                                                       !.lost = obs[c].lost]]
            /\ pending' = pending
       ELSE /\ pc' = [pc EXCEPT ![c] = "push"]
            /\ obs' = obs
            /\ pending' = [pending EXCEPT ![c] = DOMAIN localDir[c]]
    /\ UNCHANGED <<serverVars, ledgerVars, call, filename, localBaseContent,
                   exists, content, currentBytes, notExist, edits>>

\* The first of the names in S in directory order.
FirstEntry(S) ==
    DocOrder[CHOOSE i \in 1..Len(DocOrder) :
        /\ DocOrder[i] \in S
        /\ \A j \in 1..(i - 1) : DocOrder[j] \notin S]

\* Mutant: a file without a recorded base is always uploaded.
checkAndUploadNext_NewAlways(c) ==
    /\ pc[c] = "push"
    /\ pending[c] # {}
    /\ LET f == FirstEntry(pending[c])
           base == IF Has(baseContents[c], f) THEN baseContents[c][f] ELSE <<>>
       IN  /\ pending' = [pending EXCEPT ![c] = @ \ {f}]
           /\ IF Has(localDir[c], f)
                    /\ (~Has(baseContents[c], f) \/ localDir[c][f] # base)
              THEN /\ Send(c, SyncRequest(f, base, localDir[c][f]))
                   /\ filename' = [filename EXCEPT ![c] = f]
                   /\ pc' = [pc EXCEPT ![c] = "upload"]
                   /\ obs' = [obs EXCEPT ![c].calls = Bump(@, <<"POST", f>>)]
              ELSE UNCHANGED <<hpc, req, resp, filename, pc, obs>>
    /\ UNCHANGED <<serverDir, mu, serverContent, ledgerVars, call, serverFiles,
                   localBaseContent, exists, content, currentBytes, notExist,
                   edits>>

\* Mutant: a listed file that cannot be read any more is pushed as the
\* empty text.
checkAndUploadNext_PushAbsent(c) ==
    /\ pc[c] = "push"
    /\ pending[c] # {}
    /\ LET f == FirstEntry(pending[c])
           base == IF Has(baseContents[c], f) THEN baseContents[c][f] ELSE <<>>
           current == IF Has(localDir[c], f) THEN localDir[c][f] ELSE <<>>
       IN  /\ pending' = [pending EXCEPT ![c] = @ \ {f}]
           /\ IF current # base
              THEN /\ Send(c, SyncRequest(f, base, current))
                   /\ filename' = [filename EXCEPT ![c] = f]
                   /\ pc' = [pc EXCEPT ![c] = "upload"]
                   /\ obs' = [obs EXCEPT ![c].calls = Bump(@, <<"POST", f>>)]
              ELSE UNCHANGED <<hpc, req, resp, filename, pc, obs>>
    /\ UNCHANGED <<serverDir, mu, serverContent, ledgerVars, call, serverFiles,
                   localBaseContent, exists, content, currentBytes, notExist,
                   edits>>

\* checkAndUpload, the loop body: the file is read and compared with the
\* base (the empty text when there is none); syncFile is called on a change.
checkAndUploadNext(c) ==
    /\ pc[c] = "push"
    /\ pending[c] # {}
    /\ LET f == FirstEntry(pending[c])
           base == IF Has(baseContents[c], f) THEN baseContents[c][f] ELSE <<>>
       IN  /\ pending' = [pending EXCEPT ![c] = @ \ {f}]
           /\ IF Has(localDir[c], f) /\ localDir[c][f] # base
              THEN /\ Send(c, SyncRequest(f, base, localDir[c][f]))
                   /\ filename' = [filename EXCEPT ![c] = f]
                   /\ pc' = [pc EXCEPT ![c] = "upload"]
                   /\ obs' = [obs EXCEPT ![c].calls = Bump(@, <<"POST", f>>)]
              ELSE UNCHANGED <<hpc, req, resp, filename, pc, obs>>
    /\ UNCHANGED <<serverDir, mu, serverContent, ledgerVars, call, serverFiles,
                   localBaseContent, exists, content, currentBytes, notExist,
                   edits>>

\* Mutant: the error of the decoder is not looked at; the response is then
\* the zero SyncResponse.
syncFileReturn_IgnoreDecodeError(c) ==
    /\ pc[c] = "upload"
    /\ Receive(c)
    /\ LET f == filename[c]
           synced == resp[c].body
           current == req[c].latest
       IN  IF resp[c].err # "transport" /\ resp[c].status = StatusOK
           THEN /\ localDir' = IF synced # current
                               THEN [localDir EXCEPT ![c] = Put(@, f, synced)]
                               ELSE localDir
                /\ baseContents' = [baseContents EXCEPT ![c] = Put(@, f, synced)]
                /\ obs' = [obs EXCEPT ![c].failed = Remove(@, f)]
           ELSE /\ UNCHANGED <<localDir, baseContents>>
                /\ obs' = [obs EXCEPT ![c].failed = Put(@, f,
                        [status |-> resp[c].status, err |-> resp[c].err])]
    /\ pc' = [pc EXCEPT ![c] = "push"]
    /\ filename' = [filename EXCEPT ![c] = ""]
    /\ UNCHANGED <<serverDir, mu, call, serverFiles, pending, localBaseContent,
                   exists, content, currentBytes, notExist, edits>>

\* Mutant: the status of the answer is not looked at.
syncFileReturn_IgnoreStatus(c) ==
    /\ pc[c] = "upload"
    /\ Receive(c)
    /\ LET f == filename[c]
           synced == resp[c].body
           current == req[c].latest
       IN  IF resp[c].err = "none"
           THEN /\ localDir' = IF synced # current
                               THEN [localDir EXCEPT ![c] = Put(@, f, synced)]
                               ELSE localDir
                /\ baseContents' = [baseContents EXCEPT ![c] = Put(@, f, synced)]
                /\ obs' = [obs EXCEPT ![c].failed = Remove(@, f)]
           ELSE /\ UNCHANGED <<localDir, baseContents>>
                /\ obs' = [obs EXCEPT ![c].failed = Put(@, f,
                        [status |-> resp[c].status, err |-> resp[c].err])]
    /\ pc' = [pc EXCEPT ![c] = "push"]
    /\ filename' = [filename EXCEPT ![c] = ""]
    /\ UNCHANGED <<serverDir, mu, call, serverFiles, pending, localBaseContent,
                   exists, content, currentBytes, notExist, edits>>

\* Mutant: the merged content is never written back to the local file.
syncFileReturn_NoWriteBack(c) ==
    /\ pc[c] = "upload"
    /\ Receive(c)
    /\ LET f == filename[c]
           synced == resp[c].body
       IN  IF Succeeded(resp[c])
           THEN /\ localDir' = localDir
                /\ baseContents' = [baseContents EXCEPT ![c] = Put(@, f, synced)]
                /\ obs' = [obs EXCEPT ![c].failed = Remove(@, f)]
           ELSE /\ UNCHANGED <<localDir, baseContents>>
                /\ obs' = [obs EXCEPT ![c].failed = Put(@, f,
                        [status |-> resp[c].status, err |-> resp[c].err])]
    /\ pc' = [pc EXCEPT ![c] = "push"]
    /\ filename' = [filename EXCEPT ![c] = ""]
    /\ UNCHANGED <<serverDir, mu, call, serverFiles, pending, localBaseContent,
                   exists, content, currentBytes, notExist, edits>>

\* Mutant: the base becomes the text that was sent, not the merged one.
syncFileReturn_BaseLatest(c) ==
    /\ pc[c] = "upload"
    /\ Receive(c)
    /\ LET f == filename[c]
           synced == resp[c].body
           current == req[c].latest
       IN  IF Succeeded(resp[c])
           THEN /\ localDir' = IF synced # current
                               THEN [localDir EXCEPT ![c] = Put(@, f, synced)]
                               ELSE localDir
                /\ baseContents' = [baseContents EXCEPT ![c] = Put(@, f, current)]
                /\ obs' = [obs EXCEPT ![c].failed = Remove(@, f)]
           ELSE /\ UNCHANGED <<localDir, baseContents>>
                /\ obs' = [obs EXCEPT ![c].failed = Put(@, f,
                        [status |-> resp[c].status, err |-> resp[c].err])]
    /\ pc' = [pc EXCEPT ![c] = "push"]
    /\ filename' = [filename EXCEPT ![c] = ""]
    /\ UNCHANGED <<serverDir, mu, call, serverFiles, pending, localBaseContent,
                   exists, content, currentBytes, notExist, edits>>

\* Mutant: the base is not updated after a reconcile.
syncFileReturn_KeepBase(c) ==
    /\ pc[c] = "upload"
    /\ Receive(c)
    /\ LET f == filename[c]
           synced == resp[c].body
           current == req[c].latest
       IN  IF Succeeded(resp[c])
           THEN /\ localDir' = IF synced # current
                               THEN [localDir EXCEPT ![c] = Put(@, f, synced)]
                               ELSE localDir
                /\ baseContents' = baseContents
                /\ obs' = [obs EXCEPT ![c].failed = Remove(@, f)]
           ELSE /\ UNCHANGED <<localDir, baseContents>>
                /\ obs' = [obs EXCEPT ![c].failed = Put(@, f,
                        [status |-> resp[c].status, err |-> resp[c].err])]
    /\ pc' = [pc EXCEPT ![c] = "push"]
    /\ filename' = [filename EXCEPT ![c] = ""]
    /\ UNCHANGED <<serverDir, mu, call, serverFiles, pending, localBaseContent,
                   exists, content, currentBytes, notExist, edits>>

\* syncFile after the response: the local file is rewritten when the merged
\* content differs from what was sent, and the base becomes the merged content.
syncFileReturn(c) ==
    /\ pc[c] = "upload"
    /\ Receive(c)
    /\ LET f == filename[c]
           synced == resp[c].body
           current == req[c].latest
       IN  IF Succeeded(resp[c])
           THEN /\ localDir' = IF synced # current
                               THEN [localDir EXCEPT ![c] = Put(@, f, synced)]
                               ELSE localDir
                /\ baseContents' = [baseContents EXCEPT ![c] = Put(@, f, synced)]
                /\ obs' = [obs EXCEPT ![c].failed = Remove(@, f)]
           ELSE /\ UNCHANGED <<localDir, baseContents>>
                /\ obs' = [obs EXCEPT ![c].failed = Put(@, f,
                        [status |-> resp[c].status, err |-> resp[c].err])]
    /\ pc' = [pc EXCEPT ![c] = "push"]
    /\ filename' = [filename EXCEPT ![c] = ""]
    /\ UNCHANGED <<serverDir, mu, call, serverFiles, pending, localBaseContent,
                   exists, content, currentBytes, notExist, edits>>

\* checkAndUpload returns and Run waits for the next tick.
checkAndUploadReturn(c) ==
    /\ pc[c] = "push"
    /\ pending[c] = {}
    /\ pc' = [pc EXCEPT ![c] = "ticker"]
    /\ obs' = [obs EXCEPT ![c] = [NoObs EXCEPT
            !.failed = obs[c].failed,
            !.lost = IF obs[c].listed
                     THEN [f \in {g \in DOMAIN obs[c].lost : obs[c].lost[g].fresh}
                            |-> obs[c].lost[f]]
                     ELSE obs[c].lost]]
    /\ UNCHANGED <<serverVars, ledgerVars, call, loopVars, edits>>

\* An editor outside the program writes a local file while the client is
\* not in a round.
ExternalEdit(c) ==
    /\ pc[c] = "ticker"
    /\ edits < MaxEdits
    /\ \E f \in Docs, t \in Texts(MaxLen) :
        /\ ~Holds(localDir[c], f, t)
        /\ localDir' = [localDir EXCEPT ![c] = Put(@, f, t)]
    /\ edits' = edits + 1
    /\ UNCHANGED <<serverVars, baseContents, pc, call, loopVars, obs>>

\* The steps of replica c and of the handler serving it.
Step(c) ==
        \/ RunInitialSync(c)
        \/ RunTick(c)
        \/ DoSendBody(c)
        \/ handleSyncLock(c)
        \/ handleSyncList(c)
        \/ handleSyncGet(c)
        \/ handleSyncRead(c)
        \/ handleSyncWrite(c)
        \/ handleSyncRespond(c)
        \/ syncWithServerList(c)
        \/ syncWithServerNext(c)
        \/ syncWithServerDownloaded(c)
        \/ syncWithServerWrite(c)
        \/ syncWithServerReturn(c)
        \/ checkAndUploadNext(c)
        \/ syncFileReturn(c)
        \/ checkAndUploadReturn(c)
        \/ ExternalEdit(c)

Next == \E c \in Clients : Step(c)

Spec == Init /\ [][Next]_vars

\* ------------------------------------- editing while a round is running
\* The editor writes a local file between two steps of a running round.
ExternalEditInRound(c) ==
    /\ pc[c] \notin {"start", "ticker"}
    /\ edits < MaxEdits
    /\ \E f \in Docs, t \in Texts(MaxLen) :
        /\ ~Holds(localDir[c], f, t)
        /\ localDir' = [localDir EXCEPT ![c] = Put(@, f, t)]
    /\ edits' = edits + 1
    /\ UNCHANGED <<serverVars, baseContents, pc, call, loopVars, obs>>

NextEdit ==
    \/ Next
    \/ \E c \in Clients : ExternalEditInRound(c)

SpecEdit == Init /\ [][NextEdit]_vars

\* ------------------------------------------------------------ failures
\* client.Do returns an error: the request never reaches the handler, or the
\* handler has finished and its response is lost.
DoFails(c) ==
    /\ edits < MaxEdits + MaxFaults
    /\ edits' = edits + 1
    /\ \/ /\ hpc[c] = "arrived"
          /\ resp' = [resp EXCEPT ![c] = [NoResp EXCEPT !.err = "transport"]]
       \/ /\ hpc[c] = "done"
          /\ resp[c].err = "none"
          /\ resp' = [resp EXCEPT ![c] = [NoResp EXCEPT !.err = "transport"]]
    /\ hpc' = [hpc EXCEPT ![c] = "done"]
    /\ obs' = IF hpc[c] = "done" /\ req[c].method = "POST" /\ Succeeded(resp[c])
              THEN [obs EXCEPT ![c].lost = Put(@, req[c].filename,
                        [base |-> req[c].base, latest |-> req[c].latest,
                         merged |-> resp[c].body, fresh |-> TRUE])]
              ELSE obs
    /\ UNCHANGED <<serverDir, mu, req, serverContent, ledgerVars, pc, call,
                   loopVars>>

\* json.NewDecoder(resp.Body).Decode returns an error: the listing or the
\* reconcile response came with status 200 and cannot be decoded.
DecodeFails(c) ==
    /\ edits < MaxEdits + MaxFaults
    /\ edits' = edits + 1
    /\ hpc[c] = "done"
    /\ Succeeded(resp[c])
    /\ req[c].method \in {"LIST", "POST"}
    /\ resp' = [resp EXCEPT ![c] = [NoResp EXCEPT !.status = StatusOK,
                                                  !.err = "decode"]]
    /\ UNCHANGED <<serverDir, mu, hpc, req, serverContent, ledgerVars, pc, call,
                   loopVars, obs>>

\* The state at start when the replicas in R run: each of them starts with
\* an empty directory or with a note of its own.
InitWith(R) ==
    /\ serverDir \in InitServerDirs
    /\ mu = "free"
    /\ hpc = [c \in Replicas |-> "none"]
    /\ req = [c \in Replicas |-> NoReq]
    /\ serverContent = [c \in Replicas |-> <<>>]
    /\ resp = [c \in Replicas |-> NoResp]
    /\ baseContents = [c \in Replicas |-> EmptyMap]
    /\ localDir \in {l \in [Replicas -> InitLocalDirs] :
                        \A c \in Replicas \ R : l[c] = EmptyMap}
    /\ pc = [c \in Replicas |-> "start"]
    /\ call = [c \in Replicas |-> "initial"]
    /\ serverFiles = [c \in Replicas |-> EmptyMap]
    /\ pending = [c \in Replicas |-> {}]
    /\ filename = [c \in Replicas |-> ""]
    /\ localBaseContent = [c \in Replicas |-> <<>>]
    /\ exists = [c \in Replicas |-> FALSE]
    /\ content = [c \in Replicas |-> <<>>]
    /\ currentBytes = [c \in Replicas |-> <<>>]
    /\ notExist = [c \in Replicas |-> FALSE]
    /\ edits = 0
    /\ obs = [c \in Replicas |-> NoObs]

\* One replica; its calls may fail and the server's disk may refuse a write.
FaultReplicas == {"A"}

NextFault ==
    \E c \in FaultReplicas :
        \/ Step(c)
        \/ handleSyncWriteError(c)
        \/ DoFails(c)
        \/ DecodeFails(c)

SpecFault == InitWith(FaultReplicas) /\ [][NextFault]_vars

\* One replica with the server's key and one without it.
AuthReplicas == {"A", "X"}

NextAuth ==
    \E c \in AuthReplicas :
        \/ Step(c)
        \/ handleSyncUnauthorized(c)

SpecAuth == InitWith(AuthReplicas) /\ [][NextAuth]_vars

\* ------------------------------------------- a pull with failing calls
\* The state at start when the server's directory is one of dirs and the
\* replicas in R run.
InitFrom(dirs, R) ==
    /\ serverDir \in dirs
    /\ mu = "free"
    /\ hpc = [c \in Replicas |-> "none"]
    /\ req = [c \in Replicas |-> NoReq]
    /\ serverContent = [c \in Replicas |-> <<>>]
    /\ resp = [c \in Replicas |-> NoResp]
    /\ baseContents = [c \in Replicas |-> EmptyMap]
    /\ localDir \in {l \in [Replicas -> InitLocalDirs] :
                        \A c \in Replicas \ R : l[c] = EmptyMap}
    /\ pc = [c \in Replicas |-> "start"]
    /\ call = [c \in Replicas |-> "initial"]
    /\ serverFiles = [c \in Replicas |-> EmptyMap]
    /\ pending = [c \in Replicas |-> {}]
    /\ filename = [c \in Replicas |-> ""]
    /\ localBaseContent = [c \in Replicas |-> <<>>]
    /\ exists = [c \in Replicas |-> FALSE]
    /\ content = [c \in Replicas |-> <<>>]
    /\ currentBytes = [c \in Replicas |-> <<>>]
    /\ notExist = [c \in Replicas |-> FALSE]
    /\ edits = 0
    /\ obs = [c \in Replicas |-> NoObs]

\* A server that holds two notes when the replica is first run.
TwoNoteDirs ==
    {[f \in Docs |-> IF f = "note1.txt" THEN <<"a">> ELSE <<"b">>]}

\* One replica; its calls may fail and the server may fail to read a file.
NextPull ==
    \E c \in FaultReplicas :
        \/ Step(c)
        \/ handleSyncGetError(c)
        \/ DoFails(c)
        \/ DecodeFails(c)

SpecPull == InitFrom(TwoNoteDirs, FaultReplicas) /\ [][NextPull]_vars

\* ------------------------------------------------------ a fresh server
\* Server.Run creates the data directory when it does not exist: the server
\* starts with no document, and the replicas with or without a note.
FreshDirs == {EmptyMap}

SpecFresh == InitFrom(FreshDirs, Clients) /\ [][Next]_vars

\* --------------------------------------- two replicas and lost responses
\* Both replicas run; client.Do may return an error to either of them.
NextLost ==
    \E c \in Clients :
        \/ Step(c)
        \/ DoFails(c)

SpecLost == InitWith(Clients) /\ [][NextLost]_vars

\* ------------------------------------------- deleted files and fairness
\* The user deletes a local file while the client is not in a round.
ExternalDelete(c) ==
    /\ pc[c] = "ticker"
    /\ edits < MaxEdits
    /\ \E f \in DOMAIN localDir[c] :
        localDir' = [localDir EXCEPT ![c] = Remove(@, f)]
    /\ edits' = edits + 1
    /\ UNCHANGED <<serverVars, baseContents, pc, call, loopVars, obs>>

NextLive ==
    \/ Next
    \/ \E c \in Clients : ExternalDelete(c)

\* The steps replica c and its handler take by themselves (the editor's are
\* not among them), but for those of the handler that serve a fetch or a
\* reconcile under the lock.
Progress(c) ==
        \/ RunInitialSync(c)
        \/ RunTick(c)
        \/ DoSendBody(c)
        \/ handleSyncLock(c)
        \/ handleSyncList(c)
        \/ handleSyncRespond(c)
        \/ syncWithServerList(c)
        \/ syncWithServerNext(c)
        \/ syncWithServerDownloaded(c)
        \/ syncWithServerWrite(c)
        \/ syncWithServerReturn(c)
        \/ checkAndUploadNext(c)
        \/ syncFileReturn(c)
        \/ checkAndUploadReturn(c)

\* The ticker of every replica keeps firing and every call returns: each
\* replica and the handler serving it keep taking steps, a handler that
\* holds the lock goes on to serve and one that has read goes on to write
\* (once the body has arrived handleSyncGet, handleSyncRead or
\* handleSyncWrite is enabled for as long as the handler is there, so their
\* weak fairness is that the handler does not stay there), and a handler
\* that waits for the lock gets it (sync.Mutex hands the lock to a waiter
\* that has waited long).
Fairness ==
    \A c \in Clients :
        /\ WF_vars(Progress(c))
        /\ []<>(hpc[c] \notin {"locked", "read"})
        /\ SF_vars(handleSyncLock(c))

SpecLive == Init /\ [][NextLive]_vars /\ Fairness

\* ------------------------------------------------------------ restarts
\* The client process of replica c is stopped, between two of its
\* statements or while it waits for a response whose handler has returned,
\* and started again: baseContents is a variable of the process and starts
\* empty, the local directory is as the old process left it, and Run starts
\* from its first statement.
Restart(c) ==
    /\ pc[c] # "start"
    /\ hpc[c] \in {"none", "done"}
    /\ edits < MaxEdits + MaxRestarts
    /\ edits' = edits + 1
    /\ baseContents' = [baseContents EXCEPT ![c] = EmptyMap]
    /\ pc' = [pc EXCEPT ![c] = "start"]
    /\ call' = [call EXCEPT ![c] = "initial"]
    /\ hpc' = [hpc EXCEPT ![c] = "none"]
    /\ req' = [req EXCEPT ![c] = NoReq]
    /\ resp' = [resp EXCEPT ![c] = NoResp]
    /\ serverContent' = [serverContent EXCEPT ![c] = <<>>]
    /\ serverFiles' = [serverFiles EXCEPT ![c] = EmptyMap]
    /\ pending' = [pending EXCEPT ![c] = {}]
    /\ filename' = [filename EXCEPT ![c] = ""]
    /\ localBaseContent' = [localBaseContent EXCEPT ![c] = <<>>]
    /\ exists' = [exists EXCEPT ![c] = FALSE]
    /\ content' = [content EXCEPT ![c] = <<>>]
    /\ currentBytes' = [currentBytes EXCEPT ![c] = <<>>]
    /\ notExist' = [notExist EXCEPT ![c] = FALSE]
    /\ obs' = [obs EXCEPT ![c] = NoObs]
    /\ UNCHANGED <<serverDir, mu, localDir>>

NextRestart ==
    \/ Next
    \/ \E c \in Clients : Restart(c)

SpecRestart == Init /\ [][NextRestart]_vars

\* ------------------------------------------- local files are deleted
\* The user deletes a local file while a round is running: between
\* os.ReadDir and os.ReadFile of checkAndUpload, or at any other point.
ExternalDeleteInRound(c) ==
    /\ pc[c] \notin {"start", "ticker"}
    /\ edits < MaxEdits
    /\ \E f \in DOMAIN localDir[c] :
        localDir' = [localDir EXCEPT ![c] = Remove(@, f)]
    /\ edits' = edits + 1
    /\ UNCHANGED <<serverVars, baseContents, pc, call, loopVars, obs>>

NextDelete ==
    \/ Next
    \/ \E c \in Clients : ExternalDelete(c)
    \/ \E c \in Clients : ExternalDeleteInRound(c)

SpecDelete == Init /\ [][NextDelete]_vars

\* ------------------------------------------- the client is stopped
\* Run installs no signal handler and has no stop channel: a SIGINT or
\* SIGTERM ends the process where it is, between two ticks or inside one.
\* The variables of the process keep the values they had when it exited;
\* the handler serving its last request goes on.
Stop(c) ==
    /\ pc[c] # "stopped"
    /\ pc' = [pc EXCEPT ![c] = "stopped"]
    /\ UNCHANGED <<serverVars, ledgerVars, call, loopVars, edits, obs>>

NextStop ==
    \/ Next
    \/ \E c \in Clients : Stop(c)

SpecStop == Init /\ [][NextStop]_vars

\* ------------------------------------------------- the server alone
\* Any holder of the key may call the server directly, with any request.
InitApiDirs ==
    {EmptyMap} \cup {[f \in {"note1.txt"} |-> t] : t \in Texts(MaxLen)}

ApiRequests ==
    {ListRequest}
        \cup {GetRequest(f) : f \in Docs}
        \cup {SyncRequest(f, b, l) : f \in Docs, b \in Texts(MaxLen), l \in Texts(MaxLen)}

InitApi ==
    /\ serverDir \in InitApiDirs
    /\ mu = "free"
    /\ hpc = [c \in Replicas |-> "none"]
    /\ req = [c \in Replicas |-> NoReq]
    /\ serverContent = [c \in Replicas |-> <<>>]
    /\ resp = [c \in Replicas |-> NoResp]
    /\ baseContents = [c \in Replicas |-> EmptyMap]
    /\ localDir = [c \in Replicas |-> EmptyMap]
    /\ pc = [c \in Replicas |-> "start"]
    /\ call = [c \in Replicas |-> "initial"]
    /\ serverFiles = [c \in Replicas |-> EmptyMap]
    /\ pending = [c \in Replicas |-> {}]
    /\ filename = [c \in Replicas |-> ""]
    /\ localBaseContent = [c \in Replicas |-> <<>>]
    /\ exists = [c \in Replicas |-> FALSE]
    /\ content = [c \in Replicas |-> <<>>]
    /\ currentBytes = [c \in Replicas |-> <<>>]
    /\ notExist = [c \in Replicas |-> FALSE]
    /\ edits = 0
    /\ obs = [c \in Replicas |-> NoObs]

ApiCall(c) ==
    /\ edits < MaxCalls
    /\ \E r \in ApiRequests : Send(c, r)
    /\ edits' = edits + 1
    /\ obs' = [obs EXCEPT ![c] = NoObs]
    /\ UNCHANGED <<serverDir, mu, serverContent, ledgerVars, pc, call, loopVars>>

ApiReturn(c) ==
    /\ Receive(c)
    /\ UNCHANGED <<serverDir, mu, ledgerVars, pc, call, loopVars, edits, obs>>

NextApi ==
    \E c \in Clients :
        \/ ApiCall(c)
        \/ DoSendBody(c)
        \/ handleSyncLock(c)
        \/ handleSyncList(c)
        \/ handleSyncGet(c)
        \/ handleSyncRead(c)
        \/ handleSyncWrite(c)
        \/ handleSyncRespond(c)
        \/ ApiReturn(c)

SpecApi == InitApi /\ [][NextApi]_vars

\* ------------------------------------------- the server, any request
\* A key holder may send what the hsync client never sends: a body that is
\* not the JSON of a SyncRequest, and any file name.  A GET without a file
\* name is the listing.
Undecodable == [SyncRequest("", <<>>, <<>>) EXCEPT !.decodes = FALSE]
AnyRequests ==
    {ListRequest, Undecodable}
        \cup {GetRequest(n) : n \in PathNames \ {""}}
        \cup {SyncRequest(n, b, l) :
                n \in PathNames, b \in Texts(MaxLen), l \in Texts(MaxLen)}

AnyCall(c) ==
    /\ edits < MaxCalls
    /\ \E r \in AnyRequests : Send(c, r)
    /\ edits' = edits + 1
    /\ obs' = [obs EXCEPT ![c] = NoObs]
    /\ UNCHANGED <<serverDir, mu, serverContent, ledgerVars, pc, call, loopVars>>

NextAny ==
    \E c \in Clients :
        \/ AnyCall(c)
        \/ DoSendBody(c)
        \/ handleSyncLock(c)
        \/ handleSyncList(c)
        \/ handleSyncGetInvalid(c)
        \/ handleSyncGet(c)
        \/ handleSyncBadRequest(c)
        \/ handleSyncRead(c)
        \/ handleSyncWrite(c)
        \/ handleSyncRespond(c)
        \/ ApiReturn(c)

SpecAny == InitApi /\ [][NextAny]_vars
\* ------------------------------------------------------------ claims
\* The pull phase (syncWithServer) and the push phase (checkAndUpload).
InPull(c) == pc[c] \in {"list", "pull", "download", "pullwrite"}
InPush(c) == pc[c] \in {"push", "upload"}
\* syncWithServer has visited every listed name and is about to return.
PullDone(c) == pc[c] = "pull" /\ pending[c] = {}
\* The state of document f when the round of client c started.
DirtyAtStart(c, f) ==
    /\ Has(obs[c].base0, f)
    /\ Has(obs[c].local0, f)
    /\ obs[c].local0[f] # obs[c].base0[f]
CleanAtStart(c, f) ==
    /\ Has(obs[c].base0, f)
    /\ Has(obs[c].local0, f)
    /\ obs[c].local0[f] = obs[c].base0[f]
FreshAtStart(c, f) == ~Has(obs[c].base0, f) /\ ~Has(obs[c].local0, f)
\* The server's content for f, the empty text when it holds none.
Current(f) == IF Has(serverDir, f) THEN serverDir[f] ELSE <<>>
InStore(c) == hpc[c] \in {"locked", "read", "written", "failed"}

\* C1: a document that is dirty when a pull phase starts (local file X,
\* recorded base B, B # X) has local file X at every point of that pull
\* phase, whatever the server holds and serves for it.
C1_PullKeepsDirtyFile ==
    \A c \in Clients, f \in Docs :
        (InPull(c) /\ DirtyAtStart(c, f))
            => Holds(localDir[c], f, obs[c].local0[f])

\* C1 witness: a pull phase has finished in which a dirty document was
\* fetched, the served content differed from the local file, and the local
\* file is what it was.
C1_Witness ==
    \E c \in Clients, f \in Docs :
        /\ PullDone(c)
        /\ DirtyAtStart(c, f)
        /\ Has(obs[c].served, f)
        /\ obs[c].served[f] # obs[c].local0[f]
        /\ Holds(localDir[c], f, obs[c].local0[f])

\* C2: a document that is dirty when a pull phase starts (local file X,
\* recorded base B, B # X) has recorded base B at every point of that pull
\* phase, also when the server's content differs from B and is fetched.
C2_PullKeepsDirtyBase ==
    \A c \in Clients, f \in Docs :
        (InPull(c) /\ DirtyAtStart(c, f))
            => Holds(baseContents[c], f, obs[c].base0[f])

\* C3: when a tick starts with document f dirty (base X, local LB) and the
\* pull of that tick fetched server content different from X, the reconcile
\* request of that tick's push carries base X and latest LB, and what the
\* server stores and returns is ThreeWayMerge(X, LB, current).
C3_PushCarriesOldBase ==
    \A c \in Clients :
        LET f == filename[c] IN
        (/\ pc[c] = "upload"
         /\ DirtyAtStart(c, f)
         /\ Has(obs[c].served, f)
         /\ obs[c].served[f] # obs[c].base0[f])
            => /\ req[c].base = obs[c].base0[f]
               /\ req[c].latest = obs[c].local0[f]
               /\ hpc[c] = "written" =>
                    /\ Holds(serverDir, f, ThreeWayMerge(obs[c].base0[f],
                            obs[c].local0[f], serverContent[c]))
                    /\ resp[c].body = serverDir[f]

\* C4: when the push phase reconciles a document with recorded base B and
\* local content L (B # L) and the server's content is B, the server holds
\* exactly L once it has written, and when syncFile has returned the
\* client's base is L and its local file is still L.
C4_PushConverges ==
    \A c \in Clients :
        /\ (/\ hpc[c] = "written"
            /\ pc[c] = "upload"
            /\ Has(baseContents[c], req[c].filename)
            /\ serverContent[c] = req[c].base)
                => Holds(serverDir, req[c].filename, req[c].latest)
        /\ \A f \in DOMAIN obs[c].pushed :
            LET p == obs[c].pushed[f] IN
            (/\ pc[c] = "push"
             /\ Has(obs[c].base0, f)
             /\ p.current = p.base)
                => /\ p.merged = p.latest
                   /\ Holds(baseContents[c], f, p.latest)
                   /\ Holds(localDir[c], f, p.latest)

\* C4 witness: syncFile has returned for a document whose base was recorded,
\* whose server content equalled that base, and whose local edit is now both
\* the base and the local file.
C4_Witness ==
    \E c \in Clients : \E f \in DOMAIN obs[c].pushed :
        LET p == obs[c].pushed[f] IN
        /\ pc[c] = "push"
        /\ Has(obs[c].base0, f)
        /\ p.current = p.base
        /\ p.base # p.latest
        /\ Holds(baseContents[c], f, p.latest)
        /\ Holds(localDir[c], f, p.latest)

C6_FastForward ==
    \A c \in Clients, f \in Docs :
        /\ (/\ PullDone(c)
            /\ Has(serverFiles[c], f)
            /\ CleanAtStart(c, f)
            /\ serverFiles[c][f] # CalculateHash(obs[c].base0[f]))
                => /\ Has(obs[c].served, f)
                   /\ Holds(localDir[c], f, obs[c].served[f])
                   /\ Holds(baseContents[c], f, obs[c].served[f])
        /\ (/\ InPull(c)
            /\ Has(localDir[c], f)
            /\ ~Holds(obs[c].local0, f, localDir[c][f]))
                => (~Has(obs[c].local0, f) \/ CleanAtStart(c, f))

\* C6 witness: a pull phase has finished and replaced a clean local file by
\* different content served by the server.
C6_Witness ==
    \E c \in Clients, f \in Docs :
        /\ PullDone(c)
        /\ CleanAtStart(c, f)
        /\ Has(obs[c].served, f)
        /\ obs[c].served[f] # obs[c].local0[f]
        /\ Holds(localDir[c], f, obs[c].served[f])

\* C7: once a reconcile has written, the document's content is
\* ThreeWayMerge(base, incoming, current), where current is what the handler
\* read under the lock (the empty text when the document did not exist), the
\* document exists, and the response carries exactly the stored content.
C7_ReconcileAndWrite ==
    \A c \in Clients :
        /\ hpc[c] = "read" => serverContent[c] = Current(req[c].filename)
        /\ hpc[c] = "written" =>
            LET merged == ThreeWayMerge(req[c].base, req[c].latest, serverContent[c])
            IN  /\ Holds(serverDir, req[c].filename, merged)
                /\ resp[c].status = StatusOK
                /\ resp[c].body = merged

\* C7 witness: a reconcile has written the merge of a request whose base
\* differs from the content the handler read.
C7_Witness ==
    \E c \in Clients :
        /\ hpc[c] = "written"
        /\ req[c].base # serverContent[c]
        /\ serverDir[req[c].filename]
            = ThreeWayMerge(req[c].base, req[c].latest, serverContent[c])
        /\ resp[c].body = serverDir[req[c].filename]

\* C8: at most one request is in its store access (between Lock and the
\* deferred Unlock), that request holds the lock, and while a reconcile is
\* between its read and its write no list or fetch is in its store access.
C8_MutualExclusion ==
    /\ Cardinality({c \in Clients : InStore(c)}) <= 1
    /\ \A c \in Clients : InStore(c) <=> mu = c
    /\ \A c, d \in Clients :
        (c # d /\ hpc[c] = "read") => ~InStore(d)

\* C8 witness: a reconcile is between its read and its write while a list or
\* fetch of another client waits for the lock.
C8_Witness ==
    \E c, d \in Clients :
        /\ c # d
        /\ hpc[c] = "read"
        /\ hpc[d] = "arrived"
        /\ req[d].method \in {"LIST", "GET"}

\* C9: every write of a reconcile stores the merge of its request against
\* the content the document has at that moment, which is the content the
\* previous write left; no reconcile merges against older content.
C9_LinearizedWrites ==
    [][\A c \in Clients :
        (hpc[c] = "read" /\ hpc'[c] = "written")
            => serverDir'[req[c].filename]
                = ThreeWayMerge(req[c].base, req[c].latest, Current(req[c].filename))]_vars

\* C9 witness: a reconcile has written a document while a reconcile of
\* another client for the same document waits for the lock.
C9_Witness ==
    \E c, d \in Clients :
        /\ c # d
        /\ hpc[c] = "written"
        /\ hpc[d] = "arrived"
        /\ req[d].method = "POST"
        /\ req[d].filename = req[c].filename
        /\ req[d].base # serverDir[req[c].filename]

\* C10: a reconcile whose latest equals its base stores and returns the
\* content it read: ThreeWayMerge(base, base, current) = current.
C10_NoChangeNoOp ==
    \A c \in Clients :
        (hpc[c] = "written" /\ req[c].base = req[c].latest)
            => /\ Holds(serverDir, req[c].filename, serverContent[c])
               /\ resp[c].body = serverContent[c]

\* C10 witness: such a reconcile has written, for a base that differs from
\* the content it read.
C10_Witness ==
    \E c \in Clients :
        /\ hpc[c] = "written"
        /\ req[c].base = req[c].latest
        /\ req[c].base # serverContent[c]
        /\ serverDir[req[c].filename] = serverContent[c]

\* C11: a reconcile with the empty base against the empty current content
\* (the document absent, or present and empty) stores and returns exactly
\* the incoming text: ThreeWayMerge("", latest, "") = latest.
C11_FirstPushReproduces ==
    \A c \in Clients :
        (/\ hpc[c] = "written"
         /\ req[c].base = <<>>
         /\ serverContent[c] = <<>>)
            => /\ Holds(serverDir, req[c].filename, req[c].latest)
               /\ resp[c].body = req[c].latest

\* C11 witness: such a reconcile has created a document with a non-empty
\* text.
C11_Witness ==
    \E c \in Clients :
        /\ hpc[c] = "written"
        /\ req[c].base = <<>>
        /\ serverContent[c] = <<>>
        /\ req[c].latest # <<>>
        /\ req[c].filename = "note2.txt"
        /\ serverDir[req[c].filename] = req[c].latest

\* The step in which syncWithServer assigns the base after a fetch, and the
\* step in which syncFile assigns it after a reconcile response.
PullAssigns(c) == pc[c] = "download" /\ pc'[c] = "pullwrite"
PushAssigns(c) == pc[c] = "upload" /\ pc'[c] = "push" /\ Succeeded(resp[c])

\* C12 as stated: every assignment to a replica's base for a document sets
\* it to the content the server holds for that document at the moment of the
\* assignment.
C12_BaseIsServerContentNow ==
    [][\A c \in Clients :
        (PullAssigns(c) \/ PushAssigns(c))
            => Holds(serverDir, filename[c], baseContents'[c][filename[c]])]_vars

\* C12 amended: every assignment to a replica's base for a document sets it
\* to the content the server held for that document while it handled the
\* replica's own request under the lock: the content it served for the fetch,
\* or the merged content it stored for the reconcile.
C12_BaseIsServedContent ==
    [][\A c \in Clients :
        /\ (hpc[c] = "locked" /\ hpc'[c] = "done" /\ req[c].method = "GET"
                /\ resp'[c].status = StatusOK)
            => /\ resp'[c].body = serverDir[req[c].filename]
               /\ obs'[c].served[req[c].filename] = resp'[c].body
        /\ (hpc[c] = "read" /\ hpc'[c] = "written")
            => /\ resp'[c].body = serverDir'[req[c].filename]
               /\ obs'[c].pushed[req[c].filename].merged = resp'[c].body
        /\ PullAssigns(c)
            => baseContents'[c][filename[c]] = obs[c].served[filename[c]]
        /\ PushAssigns(c)
            => baseContents'[c][filename[c]] = obs[c].pushed[filename[c]].merged]_vars

\* C12 witness: a base has just been assigned the content the server served,
\* and the server's content for the document is already another one.
C12_Witness ==
    \E c \in Clients :
        /\ pc[c] = "pullwrite"
        /\ Holds(baseContents[c], filename[c], obs[c].served[filename[c]])
        /\ Current(filename[c]) # baseContents[c][filename[c]]

BaseOrEmpty(c, f) == IF Has(baseContents[c], f) THEN baseContents[c][f] ELSE <<>>

\* C14: when the push phase visits a document whose local content equals its
\* recorded base (an absent base counting as the empty text), no reconcile
\* request is sent, and the local file, the base and the server's content are
\* left as they are.
C14_PushSkip ==
    [][\A c \in Clients :
        (/\ pc[c] = "push"
         /\ pending[c] # {}
         /\ pending'[c] # pending[c]
         /\ Holds(localDir[c], FirstEntry(pending[c]),
                  BaseOrEmpty(c, FirstEntry(pending[c]))))
            => /\ pc'[c] = "push"
               /\ hpc'[c] = "none"
               /\ req'[c] = NoReq
               /\ localDir'[c] = localDir[c]
               /\ baseContents'[c] = baseContents[c]
               /\ serverDir' = serverDir]_vars

\* C14 witness: the push phase has passed over an empty local file for
\* which no base is recorded, and no reconcile was made for it.
C14_Witness ==
    \E c \in Clients, f \in Docs :
        /\ pc[c] = "push"
        /\ Has(localDir[c], f)
        /\ f \notin pending[c]
        /\ ~Has(baseContents[c], f)
        /\ localDir[c][f] = <<>>
        /\ ~Has(obs[c].pushed, f)
        /\ ~Has(serverDir, f)

\* The step in which syncWithServer writes the local file, and the step in
\* which syncFile writes the merged content back.
PullWrites(c) ==
    pc[c] = "pullwrite" /\ pc'[c] = "pull" /\ localDir'[c] # localDir[c]
PushWrites(c) ==
    pc[c] = "upload" /\ pc'[c] = "push" /\ localDir'[c] # localDir[c]

\* C15: with an editor that may change a local file between any two steps of
\* the replica, every overwrite of an existing local file by the replica
\* replaces content that equals the recorded base (pull fast-forward) or that
\* was sent to the server as latest in that push (write-back of merged).
C15_NoLostLocalEdit ==
    [][\A c \in Clients :
        LET f == filename[c] IN
        /\ (PullWrites(c) /\ Has(localDir[c], f))
            => (exists[c] /\ localDir[c][f] = localBaseContent[c])
        /\ (PushWrites(c) /\ Has(localDir[c], f))
            => localDir[c][f] = req[c].latest]_vars

\* C16: a request whose key is not the server's is answered Unauthorized in
\* one step that leaves the lock and every document as they are; the replica
\* that sent it never holds the lock, never gets a base, and its local files
\* change only by the editor's hand.
C16_AuthenticationGate ==
    [][\A x \in Strangers :
        /\ (hpc[x] = "arrived" /\ hpc'[x] # "arrived")
            => /\ hpc'[x] = "done"
               /\ resp'[x].status = StatusUnauthorized
               /\ serverDir' = serverDir
               /\ mu' = mu
        /\ mu' # x
        /\ ~InStore(x)
        /\ baseContents'[x] = baseContents[x]
        /\ localDir'[x] # localDir[x] => edits' = edits + 1]_vars

\* C16 witness: a reconcile request with a wrong key has been answered
\* Unauthorized while another replica's request held the lock, and the
\* sender has taken the answer and gone on with no base recorded.
C16_Witness ==
    \E x \in Strangers :
        /\ hpc[x] = "done"
        /\ req[x].method = "POST"
        /\ resp[x].status = StatusUnauthorized
        /\ mu \in Clients
        /\ baseContents[x] = EmptyMap
        /\ Has(localDir[x], req[x].filename)

\* syncFile takes the answer to its reconcile request.
PushReturns(c) == pc[c] = "upload" /\ pc'[c] = "push"

\* C17: when os.WriteFile fails in a reconcile, the answer is an error status
\* with no merged content, and the replica that takes this answer changes
\* neither its local files nor its bases.
C17_StorageFailureReported ==
    [][\A c \in Clients :
        /\ (hpc[c] = "read" /\ hpc'[c] = "failed")
            => /\ resp'[c].status = StatusInternalServerError
               /\ resp'[c].body = <<>>
               /\ ~Succeeded(resp'[c])
        /\ (PushReturns(c) /\ resp[c].status = StatusInternalServerError)
            => /\ localDir'[c] = localDir[c]
               /\ baseContents'[c] = baseContents[c]]_vars

\* C17 witness: a push was answered with the write error, syncFile has
\* returned, and the document is as dirty as it was.
C17_Witness ==
    \E c \in Clients, f \in Docs :
        /\ pc[c] = "push"
        /\ Has(obs[c].failed, f)
        /\ obs[c].failed[f].status = StatusInternalServerError
        /\ Has(localDir[c], f)
        /\ localDir[c][f] # BaseOrEmpty(c, f)

\* C18: the push phase of a tick starts only from a pull phase of that tick
\* that has visited every listed name and has no request in flight; a
\* reconcile request is issued only from the push phase; a pull phase starts
\* only from the start of Run or from the ticker, and the ticker is reached
\* only when the push phase (or the initial pull) has visited every name.
C18_TickOrdering ==
    [][\A c \in Clients :
        /\ (pc'[c] = "push" /\ pc[c] \notin {"push", "upload"})
            => /\ pc[c] = "pull"
               /\ pending[c] = {}
               /\ hpc[c] = "none"
               /\ call[c] = "tick"
        /\ (req'[c].method = "POST" /\ req[c].method # "POST")
            => /\ pc[c] = "push"
               /\ pc'[c] = "upload"
               /\ call[c] = "tick"
        /\ (pc'[c] = "list" /\ pc[c] # "list")
            => /\ pc[c] \in {"start", "ticker"}
               /\ hpc[c] = "none"
        /\ (pc'[c] = "ticker" /\ pc[c] # "ticker")
            => /\ pending[c] = {}
               /\ hpc[c] = "none"
               /\ \/ pc[c] = "push"
                  \/ pc[c] = "pull" /\ call[c] = "initial"]_vars

\* C18 witness: a reconcile request is in flight in a tick whose pull phase
\* fetched a document.
C18_Witness ==
    \E c \in Clients :
        /\ pc[c] = "upload"
        /\ call[c] = "tick"
        /\ req[c].method = "POST"
        /\ obs[c].served # EmptyMap

\* The handler serving replica c can take a step of its own.
HandlerCanStep(c) ==
    \/ ENABLED handleSyncLock(c)
    \/ ENABLED handleSyncList(c)
    \/ ENABLED handleSyncGet(c)
    \/ ENABLED handleSyncRead(c)
    \/ ENABLED handleSyncWrite(c)
    \/ ENABLED handleSyncRespond(c)

\* C19: a request of a replica that has arrived at the server, body and
\* all, can always be carried on by the server alone: either its handler can
\* take the lock, or
\* the handler that holds the lock can take its next step without waiting
\* for anything from the replica it serves.  A replica that stalls in the
\* middle of a call then delays no other replica.
C19_ReplicaIsolation ==
    \A d \in Clients :
        (hpc[d] = "arrived" /\ req[d].sent)
            => \/ ENABLED handleSyncLock(d)
               \/ \E c \in Clients \ {d} : mu = c /\ HandlerCanStep(c)

\* C20: when a reconcile call fails (client.Do returns an error, the status
\* is not 200, or the response cannot be decoded) syncFile returns with the
\* replica's local files and bases as they were and the push loop keeps the
\* names it has still to visit; and when the push phase visits a document
\* whose last push failed and whose file still differs from its base, it
\* sends the reconcile request for it again.
C20_FailedPushLeavesReplica ==
    [][\A c \in Clients :
        /\ (PushReturns(c) /\ ~Succeeded(resp[c]))
            => /\ localDir'[c] = localDir[c]
               /\ baseContents'[c] = baseContents[c]
               /\ pending'[c] = pending[c]
        /\ (/\ pc[c] = "push"
            /\ pending[c] # {}
            /\ pending'[c] # pending[c]
            /\ Has(obs[c].failed, FirstEntry(pending[c]))
            /\ Has(localDir[c], FirstEntry(pending[c]))
            /\ localDir[c][FirstEntry(pending[c])]
                    # BaseOrEmpty(c, FirstEntry(pending[c])))
            => LET f == FirstEntry(pending[c]) IN
               /\ pc'[c] = "upload"
               /\ hpc'[c] = "arrived"
               /\ req'[c].method = "POST"
               /\ req'[c].filename = f
               /\ req'[c].base = BaseOrEmpty(c, f)
               /\ req'[c].latest = localDir[c][f]]_vars

\* C20 witness: the push of a note failed on a transport or decoding error,
\* and in a later tick the reconcile request for that note is in flight
\* again.
C20_Witness ==
    \E c \in Clients :
        /\ pc[c] = "upload"
        /\ req[c].method = "POST"
        /\ Has(obs[c].failed, req[c].filename)
        /\ obs[c].failed[req[c].filename].err \in {"transport", "decode"}

\* downloadFile returns to syncWithServer, and the listing request returns.
FetchReturns(c) == pc[c] = "download" /\ pc'[c] # "download"
ListReturns(c) == pc[c] = "list" /\ pc'[c] # "list"

\* C21: when the fetch of a document fails in a pull (client.Do returns an
\* error or the status is not 200), the replica's bases and local files are
\* left as they are and the loop goes on with the names it has still to
\* visit; when the listing fails, the pull visits no name and, up to its end,
\* every base and every local file is what it was when the pull started.
C21_FailedFetchLeavesDocument ==
    [][\A c \in Clients :
        /\ (FetchReturns(c) /\ ~Succeeded(resp[c]))
            => /\ baseContents'[c] = baseContents[c]
               /\ localDir'[c] = localDir[c]
               /\ pc'[c] = "pull"
               /\ pending'[c] = pending[c]
        /\ (ListReturns(c) /\ ~Succeeded(resp[c]))
            => /\ baseContents'[c] = baseContents[c]
               /\ localDir'[c] = localDir[c]
               /\ pc'[c] = "pull"
               /\ pending'[c] = {}
        /\ (pc[c] = "pull" /\ serverFiles[c] = EmptyMap)
            => /\ pending[c] = {}
               /\ baseContents[c] = obs[c].base0
               /\ localDir[c] = obs[c].local0]_vars

\* C21 witness: a pull has visited every listed name; the fetch of one note
\* failed, so that it has neither base nor local file, and the other note was
\* fetched and written in the same pull.
C21_Witness ==
    \E c \in Clients, f, g \in Docs :
        /\ PullDone(c)
        /\ Has(serverFiles[c], f)
        /\ ~Has(baseContents[c], f)
        /\ ~Has(localDir[c], f)
        /\ Has(serverFiles[c], g)
        /\ FreshAtStart(c, g)
        /\ Has(obs[c].served, g)
        /\ Holds(localDir[c], g, obs[c].served[g])
        /\ Holds(baseContents[c], g, obs[c].served[g])

\* C22: whenever the server reconciles a request that carries the empty base
\* because the replica has no base for the document, the content the server
\* holds for that document is absent or empty.
C22_NoEmptyBaseMerge ==
    \A c \in Clients :
        (/\ hpc[c] = "read"
         /\ pc[c] = "upload"
         /\ ~Has(baseContents[c], req[c].filename))
            => /\ req[c].base = <<>>
               /\ serverContent[c] = <<>>

\* The reconcile of replica c for f that the server applied in an earlier
\* tick and whose response was lost; none when merged is not a text.
NoLost == [base |-> <<>>, latest |-> <<>>, merged |-> <<>>, fresh |-> TRUE]
LostOf(c, f) == IF Has(obs[c].lost, f) THEN obs[c].lost[f] ELSE NoLost

Converged ==
    \A c \in Clients, f \in DOMAIN serverDir :
        /\ Holds(baseContents[c], f, serverDir[f])
        /\ Holds(localDir[c], f, serverDir[f])
\* The same, for the local files that exist.
ConvergedKept ==
    \A c \in Clients, f \in DOMAIN serverDir :
        /\ Holds(baseContents[c], f, serverDir[f])
        /\ Has(localDir[c], f) => localDir[c][f] = serverDir[f]
NoReconcile == \A c \in Clients : req[c].method # "POST"

\* C24 as stated: when the edits of local files have stopped, no call fails
\* and every replica keeps ticking, eventually and from then on every
\* replica's local file and base of every document the server holds equal
\* the server's content, and no reconcile request is issued.
C24_QuiescentConvergence == <>[](Converged /\ NoReconcile)

\* C24 amended: under the same conditions, eventually and from then on every
\* replica's base of every document the server holds equals the server's
\* content, and so does its local file when it exists (a file deleted by the
\* user is not written again while the server's content stays the same);
\* no reconcile request is issued.
C24_QuiescentConvergenceOfKept == <>[](ConvergedKept /\ NoReconcile)

\* C24 witness: both replicas are between ticks, a document has been changed
\* on the server by a push, and every base and every local file but a
\* deleted one equal the server's content.
C24_Witness ==
    /\ \A c \in Clients : pc[c] = "ticker"
    /\ edits = MaxEdits
    /\ ConvergedKept
    /\ ~Converged
    /\ \E f \in DOMAIN serverDir : serverDir[f] # <<"a">>

\* The pull that Run makes when the process starts.
InFirstPull(c) == InPull(c) /\ call[c] = "initial"

\* C25: a replica that starts again has no base; its first pull then leaves
\* every local file that existed when it began exactly as it was, whatever
\* the server holds, and a step of that pull changes the directory only by
\* creating the file of a document that had none, with the fetched content.
C25_RestartSafety ==
    [][\A c \in Clients :
        /\ pc'[c] = "start" => baseContents'[c] = EmptyMap
        /\ (InFirstPull(c) /\ pc[c] = "list") => obs[c].base0 = EmptyMap
        /\ InFirstPull(c)
            => \A f \in DOMAIN obs[c].local0 :
                    Holds(localDir[c], f, obs[c].local0[f])
        /\ (InFirstPull(c) /\ localDir'[c] # localDir[c])
            => /\ ~Has(localDir[c], filename[c])
               /\ localDir'[c] = Put(localDir[c], filename[c],
                                     obs[c].served[filename[c]])]_vars

\* C25 witness: a replica was started again and its first pull has visited
\* every listed name; a local file left by the earlier run differs from what
\* the server served for it and is as it was, and the base is the served
\* content.
C25_Witness ==
    \E c \in Clients, f \in Docs :
        /\ edits > MaxEdits
        /\ PullDone(c)
        /\ call[c] = "initial"
        /\ Has(obs[c].local0, f)
        /\ Has(obs[c].served, f)
        /\ obs[c].served[f] # obs[c].local0[f]
        /\ Holds(localDir[c], f, obs[c].local0[f])
        /\ Holds(baseContents[c], f, obs[c].served[f])
        /\ obs[c].local0[f] # <<"b">>

\* C26: the first step of a started client is the listing request of a pull
\* that runs alone: when that pull has visited every listed name, each of them
\* was fetched (no base existed) and has the served content as its base, the
\* pull is followed by the wait for the ticker and not by a push, and no
\* reconcile request is issued before a pull of a tick has completed.
C26_StartUpRound ==
    [][\A c \in Clients :
        /\ (pc[c] = "start" /\ pc'[c] # "start")
            => /\ pc'[c] = "list"
               /\ call'[c] = "initial"
               /\ req'[c].method = "LIST"
               /\ baseContents[c] = EmptyMap
        /\ (PullDone(c) /\ call[c] = "initial")
            => /\ obs[c].base0 = EmptyMap
               /\ \A f \in DOMAIN serverFiles[c] :
                    /\ Has(obs[c].served, f)
                    /\ Holds(baseContents[c], f, obs[c].served[f])
        /\ (InFirstPull(c) /\ ~InFirstPull(c)')
            => /\ PullDone(c)
               /\ pc'[c] = "ticker"
        /\ call[c] = "initial"
            => /\ req[c].method # "POST"
               /\ ~InPush(c)
        /\ (req'[c].method = "POST" /\ req[c].method # "POST")
            => /\ call[c] = "tick"
               /\ pc[c] = "push"]_vars

\* C26 witness: the start-up pull of a replica has visited the two names the
\* server listed and recorded the served content as the base of each.
C26_Witness ==
    \E c \in Clients :
        /\ PullDone(c)
        /\ call[c] = "initial"
        /\ DOMAIN serverFiles[c] = Docs
        /\ \A f \in Docs :
            /\ Has(obs[c].served, f)
            /\ Holds(baseContents[c], f, obs[c].served[f])

\* C27: reads have no side effects.  No step of the handler of a listing or
\* of a fetch changes the store: every document keeps its content and no
\* document is created.  The listing answers with the hash of every document
\* held; a fetch answers 200 with the content of a document held, which may
\* be empty, and 404 "Not Found", not a success, for a name not held.
C27_ReadsHaveNoSideEffects ==
    [][\A c \in Clients :
        /\ (req[c].method \in {"LIST", "GET"} /\ hpc'[c] # hpc[c])
            => serverDir' = serverDir
        /\ (req[c].method = "LIST" /\ hpc[c] = "locked" /\ hpc'[c] = "done")
            => /\ resp'[c].status = StatusOK
               /\ resp'[c].list =
                    [f \in DOMAIN serverDir |-> CalculateHash(serverDir[f])]
        /\ (req[c].method = "GET" /\ hpc[c] = "locked" /\ hpc'[c] = "done")
            => IF Has(serverDir, req[c].filename)
               THEN /\ resp'[c].status = StatusOK
                    /\ resp'[c].body = serverDir[req[c].filename]
               ELSE /\ resp'[c].status = StatusNotFound
                    /\ ~Succeeded(resp'[c])]_vars

\* A fetch of a name the server does not hold has been answered Not Found
\* and the store holds no such document.
C27_Witness ==
    \E c \in Clients :
        /\ hpc[c] = "done"
        /\ req[c].method = "GET"
        /\ resp[c].status = StatusNotFound
        /\ ~Has(serverDir, req[c].filename)

\* Document f is the same, or absent, in the maps m1 and m2.
SameAt(m1, m2, f) ==
    IF Has(m1, f) THEN Holds(m2, f, m1[f]) ELSE ~Has(m2, f)
\* The loop of syncWithServer finds the base of f out of date: there is
\* none, or its hash is not the listed one.
OutOfDate(c, f) ==
    IF Has(baseContents[c], f)
    THEN CalculateHash(baseContents[c][f]) # serverFiles[c][f]
    ELSE TRUE

\* C28: the pull fetches only out-of-date documents.  When the loop of the
\* pull takes up a listed document it sends a fetch for it exactly when the
\* replica has no base for it or the hash of the base differs from the
\* listed hash, and a fetch is sent nowhere else.  A step of the pull
\* changes the local file and the base of the document being fetched only;
\* when the loop ends, the documents fetched are the listed ones that were
\* out of date when the round started, and every other document, listed or
\* only local, has the local file and the base it had then.
C28_PullFetchesOutOfDate ==
    [][\A c \in Clients :
        /\ (pc[c] = "pull" /\ pending'[c] # pending[c] /\ pending[c] # {})
            => LET f == CHOOSE g \in pending[c] : g \notin pending'[c] IN
               IF OutOfDate(c, f)
               THEN /\ pc'[c] = "download"
                    /\ req'[c].method = "GET" /\ req'[c].filename = f
               ELSE /\ pc'[c] = "pull" /\ hpc'[c] = hpc[c] /\ req'[c] = req[c]
        /\ (req'[c].method = "GET" /\ req[c].method # "GET")
            => /\ pc[c] = "pull"
               /\ Has(serverFiles[c], req'[c].filename)
               /\ OutOfDate(c, req'[c].filename)
        /\ InPull(c)
            => \A f \in Docs :
                (pc[c] \in {"download", "pullwrite"} /\ f = filename[c])
                \/ /\ SameAt(localDir[c], localDir'[c], f)
                   /\ SameAt(baseContents[c], baseContents'[c], f)
        /\ PullDone(c)
            => \A f \in Docs :
                IF Has(obs[c].served, f)
                THEN /\ Has(serverFiles[c], f)
                     /\ IF Has(obs[c].base0, f)
                        THEN CalculateHash(obs[c].base0[f]) # serverFiles[c][f]
                        ELSE TRUE
                ELSE /\ SameAt(obs[c].local0, localDir[c], f)
                     /\ SameAt(obs[c].base0, baseContents[c], f)]_vars

\* A pull has ended in which a listed document was up to date and was not
\* fetched: the local file and the base are those of the start of the round.
C28_Witness ==
    \E c \in Clients : \E f \in Docs :
        /\ PullDone(c)
        /\ obs[c].listed
        /\ Has(serverFiles[c], f)
        /\ Has(localDir[c], f)
        /\ Has(baseContents[c], f)
        /\ ~Has(obs[c].served, f)

\* The reconcile request r is malformed: its body does not decode, or the
\* last element of its file name is ".", "/" or does not end in ".txt".
Malformed(r) ==
    /\ r.method = "POST"
    /\ \/ ~r.decodes
       \/ Base(r.filename) \in {".", "/"}
       \/ ~HasSuffix(Base(r.filename), <<".", "t", "x", "t">>)

\* C29: malformed requests leave the store untouched.  No step of the
\* handler of a malformed reconcile request changes the store: no document
\* is created and none is modified.  The handler never reads or merges for
\* it, and once the body has arrived its one step after taking the lock
\* answers 400, which is not a success, and ends the handler.
C29_MalformedRejected ==
    [][\A c \in Clients :
        Malformed(req[c]) =>
            /\ hpc'[c] # hpc[c] => serverDir' = serverDir
            /\ hpc[c] \notin {"read", "written", "failed"}
            /\ (hpc[c] = "locked" /\ hpc'[c] # hpc[c])
                => /\ req[c].sent
                   /\ hpc'[c] = "done"
                   /\ mu' = "free"
                   /\ resp'[c].status = StatusBadRequest
                   /\ ~Succeeded(resp'[c])
            /\ hpc[c] = "done" => resp[c].status = StatusBadRequest]_vars

\* A reconcile request for a name that is not a .txt name has been answered
\* 400 and the store holds no document of that name.
C29_Witness ==
    \E c \in Clients :
        /\ hpc[c] = "done"
        /\ req[c].method = "POST"
        /\ req[c].decodes
        /\ Base(req[c].filename) = "note1.md"
        /\ resp[c].status = StatusBadRequest
        /\ ~Has(serverDir, "note1.md")

\* The store under the steps of the system: every step keeps every name the
\* server holds, the store changes only in the write of a reconcile
\* request, and the step that deletes a local file changes nothing on the
\* server and sends nothing.
StoreOnlyGrows ==
    /\ DOMAIN serverDir \subseteq DOMAIN serverDir'
    /\ serverDir' # serverDir
        => \E c \in Clients :
            /\ hpc[c] = "read" /\ hpc'[c] = "written"
            /\ req[c].method = "POST"
    /\ \A c \in Clients :
        (/\ DOMAIN localDir'[c] # DOMAIN localDir[c]
         /\ DOMAIN localDir'[c] \subseteq DOMAIN localDir[c])
            => /\ serverDir' = serverDir
               /\ req' = req /\ hpc' = hpc
\* Replica c sends a request of one of the methods in M.
Calls(c, M) ==
    /\ hpc[c] = "none" /\ hpc'[c] = "arrived"
    /\ req'[c].method \in M

\* C30: the server's document set only grows: no step removes a document,
\* deleting a local file never removes or empties the server's document,
\* and the replica issues no call, fetch or reconcile, for a file that is
\* absent locally.
C30_ServerSetOnlyGrows ==
    [][/\ StoreOnlyGrows
       /\ \A c \in Clients :
            Calls(c, {"GET", "POST"}) => Has(localDir[c], req'[c].filename)]_vars

\* C30 as amended: the server's document set only grows: no step removes a
\* document, deleting a local file never removes or empties the server's
\* document, and the replica issues a reconcile call only for a file its
\* push phase has just read, carrying the content read; a file it finds
\* absent is skipped, never presented as the empty text.
C30_ServerSetOnlyGrowsByPush ==
    [][/\ StoreOnlyGrows
       /\ \A c \in Clients :
            /\ Calls(c, {"POST"})
                => /\ pc[c] = "push"
                   /\ Has(localDir[c], req'[c].filename)
                   /\ req'[c].latest = localDir[c][req'[c].filename]
            /\ (pc[c] = "push" /\ pending'[c] # pending[c] /\ pending[c] # {}
                    /\ ~Has(localDir[c], FirstEntry(pending[c])))
                => /\ hpc'[c] = hpc[c] /\ req'[c] = req[c]
                   /\ pc'[c] = "push"]_vars

\* A replica whose local file was deleted before the tick started has
\* gone through its push phase; the server still holds the document, with
\* its content.
C30_Witness ==
    \E c \in Clients : \E f \in Docs :
        /\ call[c] = "tick"
        /\ pc[c] = "push"
        /\ pending[c] = {}
        /\ Has(obs[c].base0, f)
        /\ ~Has(obs[c].local0, f)
        /\ ~Has(localDir[c], f)
        /\ Has(serverDir, f)
        /\ serverDir[f] # <<>>

\* C31: no retry inside a tick.  In every round each call has been sent at
\* most once: one listing, one fetch per document, one reconcile per
\* document, whether or not a call failed.  The count is faithful: every
\* call a replica sends is counted, and the count starts again only when a
\* round starts or has ended.  The listing is sent only at the start of a
\* round, so a failed call is sent again by a later tick only.
C31_NoRetryInsideTick ==
    [][\A c \in Clients :
        /\ \A k \in DOMAIN obs[c].calls : obs[c].calls[k] <= 1
        /\ \A k \in DOMAIN obs'[c].calls : obs'[c].calls[k] <= 1
        /\ Calls(c, {"LIST", "GET", "POST"})
            => LET k == <<req'[c].method, req'[c].filename>> IN
               Count(obs'[c].calls, k) =
                    (IF req'[c].method = "LIST"
                     THEN 0 ELSE Count(obs[c].calls, k)) + 1
        /\ Calls(c, {"LIST"})
            => /\ pc[c] \in {"start", "ticker"}
               /\ pc'[c] = "list"
        /\ (\E k \in DOMAIN obs[c].calls :
                Count(obs'[c].calls, k) < obs[c].calls[k])
            => \/ pc[c] \in {"start", "ticker"} /\ pc'[c] = "list"
               \/ pc[c] \in {"pull", "push"} /\ pc'[c] = "ticker"]_vars

\* The push loop of a tick has ended in which the reconcile call for a
\* document failed: the call was sent once.
C31_Witness ==
    \E c \in Clients : \E f \in Docs :
        /\ call[c] = "tick"
        /\ pc[c] = "push"
        /\ pending[c] = {}
        /\ hpc[c] = "none"
        /\ Has(obs[c].failed, f)
        /\ Count(obs[c].calls, <<"POST", f>>) = 1

\* In the round of replica c document f was fetched and recorded as the
\* base, the local file was absent or clean and so was to be written, and
\* it does not hold the fetched content.
FetchedNotWritten(c, f) ==
    /\ Has(obs[c].served, f)
    /\ Holds(baseContents[c], f, obs[c].served[f])
    /\ FreshAtStart(c, f) \/ CleanAtStart(c, f)
    /\ ~Holds(localDir[c], f, obs[c].served[f])
\* In the round of replica c the server has stored a merge for f that is
\* not the replica's local file and base.
PushedNotApplied(c, f) ==
    /\ Has(obs[c].pushed, f)
    /\ ~(/\ Holds(localDir[c], f, obs[c].pushed[f].merged)
         /\ Holds(baseContents[c], f, obs[c].pushed[f].merged))

\* C32: graceful stop.  The process exits only when no round is in
\* progress, and a process that has exited has left no document fetched
\* with its base updated but its local file not written, and none pushed
\* to the server with the merged result not applied locally.
C32_GracefulStop ==
    [][\A c \in Clients :
        /\ (pc'[c] = "stopped" /\ pc[c] # "stopped")
            => pc[c] \in {"start", "ticker"}
        /\ pc[c] = "stopped"
            => \A f \in Docs :
                /\ ~FetchedNotWritten(c, f)
                /\ ~PushedNotApplied(c, f)]_vars

\* The size of the body of a reconcile request: the bytes of its two texts
\* (the rest of the JSON body is of bounded size).
BodySize(r) == Len(r.base) + Len(r.latest)
\* The size limit the server is to enforce on a request body: it admits
\* any one text of MaxLen characters, and a body carrying two such texts
\* exceeds it.  handleSync sets no limit of its own.
SizeLimit == MaxLen
Oversized(r) == r.method = "POST" /\ BodySize(r) > SizeLimit

\* C33: oversized requests are rejected.  No step of the handler of a
\* reconcile request whose body exceeds the size limit changes the store;
\* the handler never reads or merges for it, and its answer is not a
\* success.
C33_OversizedRejected ==
    [][\A c \in Clients :
        Oversized(req[c]) =>
            /\ hpc'[c] # hpc[c] => serverDir' = serverDir
            /\ hpc[c] \notin {"read", "written", "failed"}
            /\ hpc[c] = "done" => ~Succeeded(resp[c])]_vars
====
